---- MODULE Spec2Model ----
(***************************************************************************)
(* Shared data-fetch cache of the finance dashboard: the refresh-interval  *)
(* registry and the useApiData hook (src/hooks/useApiData.js), the query   *)
(* client defaults (Providers), the error classifier (errorUtils) and the  *)
(* dot-path utilities (jsonPath).                                          *)
(***************************************************************************)
EXTENDS Integers, Sequences, FiniteSets, TLC

\* ------------------------------------------------------------------ bounds
\* Outbound requests (queryFn invocations) a behaviour may start.
MaxRequests == 3
\* The same for SpecRetry, where one widget fetches and retries.
MaxRetryRequests == 3
\* The same for SpecInterval, where widgets come, go and are reconfigured.
MaxIntervalRequests == 2

\* ------------------------------------------------------- ErrorType (enum)
RATE_LIMIT == "rate_limit"
AUTH_ERROR == "auth_error"
NOT_FOUND == "not_found"
SERVER_ERROR == "server_error"
NETWORK_ERROR == "network_error"
TIMEOUT == "timeout"
INVALID_DATA == "invalid_data"
UNKNOWN == "unknown"

ErrorType ==
  {RATE_LIMIT, AUTH_ERROR, NOT_FOUND, SERVER_ERROR, NETWORK_ERROR, TIMEOUT,
   INVALID_DATA, UNKNOWN}

\* An error that carries no `type`: an exception raised inside queryFn that is
\* not an ApiError (the TypeError of `json.Note.includes` on a non-string Note).
UNTYPED == "untyped"

\* No error (null).
NoError == [type |-> "none", message |-> "none", retryAfter |-> 0]

ApiError(type, message, retryAfter) ==
  [type |-> type, message |-> message, retryAfter |-> retryAfter]

\* ------------------------------------------------------ response bodies
\* A response body as the classifier sees it.
\*   parse : "invalid"   not JSON, or empty (JSON.parse throws)
\*           "falsy"     JSON null, 0, false or ""
\*           "primitive" a truthy JSON number, string or true
\*           "object"    a JSON object or array
\*   note  : the body's Note field: "absent", "freq" (a string containing
\*           "API call frequency"), "other" (another non-empty string),
\*           "nonstring" (a truthy value without an includes method)
\*   info, errmsg : a truthy Information / "Error Message" field
\*   code429 : status.error_code === 429
\*   hint  : the number after "retry" in the raw text, -1 when there is none
Body(parse, note, info, errmsg, code429, hint) ==
  [parse |-> parse, note |-> note, info |-> info, errmsg |-> errmsg,
   code429 |-> code429, hint |-> hint]

PlainBody(parse) == Body(parse, "absent", FALSE, FALSE, FALSE, -1)

\* detectApiResponseError(json): the error found in a parsed body, NoError for
\* null, or an untyped exception when Note is truthy and has no includes.
detectApiResponseError(json) ==
  IF json.parse # "object" THEN NoError
  ELSE IF json.note = "nonstring" THEN ApiError(UNTYPED, "TypeError", 0)
  ELSE IF json.note = "freq"
    THEN ApiError(RATE_LIMIT, "API rate limit reached", 3600)
  ELSE IF json.info THEN ApiError(INVALID_DATA, "Invalid API request", 0)
  ELSE IF json.errmsg THEN ApiError(INVALID_DATA, "Invalid request", 0)
  ELSE IF json.code429
    THEN ApiError(RATE_LIMIT, "API rate limit reached", 60)
  ELSE NoError

\* An extractRetryAfter that finds no number.
extractRetryAfter_None(body) == 0

\* extractRetryAfter(responseBody): parseInt of the matched digits, or null (0
\* here: `extractRetryAfter(..) || 60` treats null and 0 alike).
extractRetryAfter(body) == IF body.hint >= 0 THEN body.hint ELSE 0

\* The switch of parseHttpError on the status code.
StatusError(status, body) ==
  CASE status = 400 -> ApiError(INVALID_DATA, "Bad request", 0)
    [] status = 401 -> ApiError(AUTH_ERROR, "Authentication required", 0)
    [] status = 403 -> ApiError(AUTH_ERROR, "Access denied", 0)
    [] status = 404 -> ApiError(NOT_FOUND, "Not found", 0)
    [] status = 429 ->
         ApiError(RATE_LIMIT, "Rate limit exceeded",
                  IF extractRetryAfter(body) # 0
                    THEN extractRetryAfter(body) ELSE 60)
    [] status \in {500, 502, 503, 504} ->
         ApiError(SERVER_ERROR, "Server error", 0)
    [] OTHER -> ApiError(UNKNOWN, "Error (status)", 0)

\* parseHttpError(status, statusText, responseBody): a body that parses to a
\* truthy value is checked for an embedded error first.
parseHttpError(status, body) ==
  IF body.parse \in {"primitive", "object"}
       /\ detectApiResponseError(body) # NoError
    THEN detectApiResponseError(body)
    ELSE StatusError(status, body)

\* A parseNetworkError that looks for the connectivity words first.
parseNetworkError_NetworkFirst(msg) ==
  IF "network" \in msg THEN ApiError(NETWORK_ERROR, "Network error", 0)
  ELSE IF "timeout" \in msg THEN ApiError(TIMEOUT, "Request timed out", 0)
  ELSE IF "cors" \in msg THEN ApiError(NETWORK_ERROR, "CORS error", 0)
  ELSE ApiError(UNKNOWN, "Request failed", 0)

\* parseNetworkError(error): msg is the set of keyword classes the lower-cased
\* message contains ("timeout": timeout / timed out; "network": network /
\* failed to fetch / net::err; "cors").
parseNetworkError(msg) ==
  IF "timeout" \in msg THEN ApiError(TIMEOUT, "Request timed out", 0)
  ELSE IF "network" \in msg THEN ApiError(NETWORK_ERROR, "Network error", 0)
  ELSE IF "cors" \in msg THEN ApiError(NETWORK_ERROR, "CORS error", 0)
  ELSE ApiError(UNKNOWN, "Request failed", 0)

\* ------------------------------------------------------------ responses
\* What one outbound request ends with: fetch() rejects with a message, or an
\* HTTP response arrives with a status and a body.
Thrown(msg) == [kind |-> "throw", msg |-> msg, status |-> 0,
                body |-> PlainBody("invalid")]
Http(status, body) == [kind |-> "http", msg |-> {}, status |-> status,
                       body |-> body]

\* response.ok
ResponseOk(resp) == resp.status >= 200 /\ resp.status <= 299

\* A queryFn that takes a body of a 2xx answer that is not JSON for data.
queryFn_Unparsed(resp) ==
  IF resp.kind = "throw"
    THEN [ok |-> FALSE, error |-> parseNetworkError(resp.msg)]
  ELSE IF ~ResponseOk(resp)
    THEN [ok |-> FALSE, error |-> parseHttpError(resp.status, resp.body)]
  ELSE [ok |-> TRUE, error |-> NoError]

\* queryFn of useApiData for a configured URL: the value it resolves with
\* ([ok |-> TRUE], the parsed body being the data) or the error it throws.
queryFn(resp) ==
  IF resp.kind = "throw"
    THEN [ok |-> FALSE, error |-> parseNetworkError(resp.msg)]
  ELSE IF ~ResponseOk(resp)
    THEN [ok |-> FALSE, error |-> parseHttpError(resp.status, resp.body)]
  ELSE IF resp.body.parse = "invalid"
    THEN [ok |-> FALSE, error |-> ApiError(INVALID_DATA, "Invalid response", 0)]
  ELSE IF detectApiResponseError(resp.body) # NoError
    THEN [ok |-> FALSE, error |-> detectApiResponseError(resp.body)]
  ELSE [ok |-> TRUE, error |-> NoError]

\* queryFn of usePrefetchApi: what it throws is no ApiError and has no type;
\* a body that parses is its data, whatever it says.
prefetchQueryFn(resp) ==
  IF resp.kind = "throw"
    THEN [ok |-> FALSE, error |-> ApiError(UNTYPED, "fetch rejected", 0)]
  ELSE IF ~ResponseOk(resp)
    THEN [ok |-> FALSE, error |-> ApiError(UNTYPED, "HTTP (status)", 0)]
  ELSE IF resp.body.parse = "invalid"
    THEN [ok |-> FALSE, error |-> ApiError(UNTYPED, "SyntaxError", 0)]
  ELSE [ok |-> TRUE, error |-> NoError]

\* A retry option that allows one retry too many.
retry_OneMore(failureCount, error) ==
  IF error.type = RATE_LIMIT THEN FALSE
  ELSE IF error.type = AUTH_ERROR THEN FALSE
  ELSE IF error.type = NOT_FOUND THEN FALSE
  ELSE failureCount < 3

\* retry(failureCount, error) of useApiData.
retry(failureCount, error) ==
  IF error.type = RATE_LIMIT THEN FALSE
  ELSE IF error.type = AUTH_ERROR THEN FALSE
  ELSE IF error.type = NOT_FOUND THEN FALSE
  ELSE failureCount < 2

\* -------------------------------------------------- the interval registry
\* refreshIntervalRegistry: a Map url -> Map widgetId -> interval, here a
\* function whose domain is the set of URLs that have an entry.
registerInterval(reg, url, widgetId, interval) ==
  LET inner == IF url \in DOMAIN reg THEN reg[url] ELSE << >>
      set == [w \in (DOMAIN inner) \cup {widgetId} |->
                IF w = widgetId THEN interval ELSE inner[w]]
  IN [u \in (DOMAIN reg) \cup {url} |-> IF u = url THEN set ELSE reg[u]]

unregisterInterval(reg, url, widgetId) ==
  IF url \in DOMAIN reg
    THEN LET rest == [w \in (DOMAIN reg[url]) \ {widgetId} |-> reg[url][w]]
         IN IF DOMAIN rest = {}
              THEN [u \in (DOMAIN reg) \ {url} |-> reg[u]]
              ELSE [u \in DOMAIN reg |-> IF u = url THEN rest ELSE reg[u]]
    ELSE reg

\* Math.min(...xs) of a non-empty set of numbers.
MathMin(xs) == CHOOSE m \in xs : \A x \in xs : m <= x

\* A getShortestInterval that forgets to leave out the manual-only entries.
getShortestInterval_AllEntries(reg, url) ==
  IF url \notin DOMAIN reg THEN 0
  ELSE MathMin({reg[url][w] : w \in DOMAIN reg[url]})

getShortestInterval(reg, url) ==
  IF url \notin DOMAIN reg THEN 0
  ELSE LET nonZeroIntervals ==
             {reg[url][w] : w \in {x \in DOMAIN reg[url] : reg[url][x] > 0}}
       IN IF nonZeroIntervals = {} THEN 0 ELSE MathMin(nonZeroIntervals)

\* ------------------------------------------------------------ JSON paths
\* A string is the sequence of its characters. A JSON value is a node
\* [t, v, props, id]: t is its type, v the text of a number or string, props
\* the own properties of an object or an array by name; the elements of an
\* array are its properties named by canonical decimal indices. id is the
\* identity of an object or array that existed before the call under study
\* (where it sits in the caller's tree); an object or array the call creates
\* has the identity Fresh. order lists the property names that are not
\* integer indices in the order of their creation, which is the order
\* Object.keys and Object.entries give them, after the integer indices.
Digits == <<"0", "1", "2", "3", "4", "5", "6", "7", "8", "9">>
Dot == "."

LengthKey == <<"l", "e", "n", "g", "t", "h">>

NoProps == [k \in {} |-> 0]
Fresh == <<>>
Leaf(t, text) ==
  [t |-> t, v |-> text, props |-> NoProps, id |-> Fresh, order |-> <<>>]
Undefined == Leaf("undefined", <<>>)
Null == Leaf("null", <<>>)
NumberOf(text) == Leaf("number", text)
StringOf(text) == Leaf("string", text)

\* /^\d+$/.test(key)
IsNumeric(key) ==
  key # <<>> /\ \A i \in DOMAIN key : \E d \in DOMAIN Digits : Digits[d] = key[i]

DigitValue(c) == (CHOOSE d \in DOMAIN Digits : Digits[d] = c) - 1

\* parseInt(key, 10) of a string of digits.
RECURSIVE parseInt(_)
parseInt(key) ==
  IF key = <<>> THEN 0
  ELSE 10 * parseInt(SubSeq(key, 1, Len(key) - 1)) + DigitValue(key[Len(key)])

\* String(n): the property name of the index n.
RECURSIVE String(_)
String(n) ==
  IF n < 10 THEN <<Digits[n + 1]>>
  ELSE String(n \div 10) \o <<Digits[(n % 10) + 1]>>

\* A property name that is an integer index: "7", not "007".
IsIndex(key) == IsNumeric(key) /\ String(parseInt(key)) = key

\* The names of S in some order (S has at most one name wherever the order
\* matters).
SomeOrder(S) ==
  CHOOSE seq \in [1..Cardinality(S) -> S] : {seq[i] : i \in DOMAIN seq} = S

ObjectOf(props) ==
  [t |-> "object", v |-> <<>>, props |-> props, id |-> Fresh,
   order |-> SomeOrder({k \in DOMAIN props : ~IsIndex(k)})]
ArrayOf(props) ==
  [t |-> "array", v |-> <<>>, props |-> props, id |-> Fresh,
   order |-> SomeOrder({k \in DOMAIN props : ~IsIndex(k)})]

\* The elements of an array literal as properties.
Elements(items) == [k \in {String(i - 1) : i \in DOMAIN items} |->
                      items[parseInt(k) + 1]]

\* path.split(".")
RECURSIVE split(_)
split(path) ==
  IF \A i \in DOMAIN path : path[i] # Dot THEN <<path>>
  ELSE LET d == CHOOSE i \in DOMAIN path :
                  path[i] = Dot /\ \A j \in 1..(i - 1) : path[j] # Dot
       IN <<SubSeq(path, 1, d - 1)>> \o split(SubSeq(path, d + 1, Len(path)))

\* keys.join(".")
RECURSIVE join(_)
join(keys) ==
  IF Len(keys) = 1 THEN keys[1] ELSE keys[1] \o <<Dot>> \o join(Tail(keys))

\* array.length: one more than the greatest index.
ArrayLength(node) ==
  LET indices == {parseInt(k) : k \in {x \in DOMAIN node.props :
                                         IsNumeric(x) /\ String(parseInt(x)) = x}}
  IN IF indices = {} THEN 0
     ELSE 1 + CHOOSE m \in indices : \A n \in indices : n <= m

\* current[key] of an object or array: an array has the property length, an
\* absent property reads undefined.
GetProp(node, key) ==
  IF key \in DOMAIN node.props THEN node.props[key]
  ELSE IF node.t = "array" /\ key = LengthKey
    THEN NumberOf(String(ArrayLength(node)))
  ELSE Undefined

\* current[key] = value
SetProp(node, key, value) ==
  [node EXCEPT !.props =
     [k \in DOMAIN node.props \cup {key} |->
        IF k = key THEN value ELSE node.props[k]],
               !.order =
     IF key \in DOMAIN node.props \/ IsIndex(key) THEN @ ELSE Append(@, key)]

\* [...array]: the elements, without the other properties.
SpreadArray(node) ==
  ArrayOf([k \in {x \in DOMAIN node.props :
                    IsNumeric(x) /\ String(parseInt(x)) = x} |->
             node.props[k]])

\* {...value}: the own properties of an object or array, the characters of a
\* string, nothing of another primitive.
SpreadObject(node) ==
  IF node.t \in {"object", "array"}
    THEN [ObjectOf(node.props) EXCEPT !.order = node.order]
  ELSE IF node.t = "string"
    THEN ObjectOf([k \in {String(i - 1) : i \in DOMAIN node.v} |->
                     StringOf(<<node.v[parseInt(k) + 1]>>)])
  ELSE ObjectOf(NoProps)

\* A copy that hands back the object or array it was given.
ShallowCopy_Same(node) ==
  IF node.t \in {"object", "array"} THEN node ELSE SpreadObject(node)

\* Array.isArray(x) ? [...x] : {...x}
ShallowCopy(node) ==
  IF node.t = "array" THEN SpreadArray(node) ELSE SpreadObject(node)

\* The loop of getByPath from keys[i] on.
RECURSIVE getFrom(_, _, _)
getFrom(current, keys, i) ==
  IF i > Len(keys) THEN current
  ELSE IF current.t \in {"null", "undefined"} THEN Undefined
  ELSE IF current.t = "array" /\ IsNumeric(keys[i])
    THEN getFrom(GetProp(current, String(parseInt(keys[i]))), keys, i + 1)
  ELSE IF current.t = "object" \/ current.t = "array"
    THEN getFrom(GetProp(current, keys[i]), keys, i + 1)
  ELSE Undefined

getByPath(obj, path) ==
  IF path = <<>> THEN obj
  ELSE IF obj.t \in {"null", "undefined"} THEN Undefined
  ELSE getFrom(obj, split(path), 1)

\* The loop of setByPath from keys[i] on, and the final assignment; current
\* is the fresh copy the loop writes into.
RECURSIVE setFrom(_, _, _, _)
setFrom(current, keys, i, value) ==
  IF i = Len(keys) THEN SetProp(current, keys[i], value)
  ELSE LET child == GetProp(current, keys[i])
           fresh == IF child.t \in {"undefined", "null"}
                      THEN IF IsNumeric(keys[i + 1]) THEN ArrayOf(NoProps)
                           ELSE ObjectOf(NoProps)
                      ELSE ShallowCopy(child)
       IN SetProp(current, keys[i], setFrom(fresh, keys, i + 1, value))

setByPath(obj, path, value) ==
  IF path = <<>> THEN value
  ELSE setFrom(ShallowCopy(obj), split(path), 1, value)

\* --------------------------------------------------------- normalizeData
\* Property names of the rows and of the providers' responses.
Key ==
  [time |-> <<"t", "i", "m", "e">>,
   open |-> <<"o", "p", "e", "n">>,
   high |-> <<"h", "i", "g", "h">>,
   low |-> <<"l", "o", "w">>,
   close |-> <<"c", "l", "o", "s", "e">>,
   volume |-> <<"v", "o", "l", "u", "m", "e">>,
   key |-> <<"k", "e", "y">>,
   value |-> <<"v", "a", "l", "u", "e">>]

\* "1. open", "2. high", "3. low", "4. close", "5. volume"
Alpha ==
  [open |-> <<"1", ".", " ">> \o Key.open,
   high |-> <<"2", ".", " ">> \o Key.high,
   low |-> <<"3", ".", " ">> \o Key.low,
   close |-> <<"4", ".", " ">> \o Key.close,
   volume |-> <<"5", ".", " ">> \o Key.volume]

NaN == NumberOf(<<"N", "a", "N">>)

\* { k1: v1, k2: v2, ... } of the entries <<k, v>> in the order written.
RECURSIVE ObjectLiteral(_)
ObjectLiteral(entries) ==
  IF entries = <<>> THEN ObjectOf(NoProps)
  ELSE LET last == entries[Len(entries)]
       IN SetProp(ObjectLiteral(SubSeq(entries, 1, Len(entries) - 1)),
                  last[1], last[2])

ArrayLiteral(items) == ArrayOf(Elements(items))

\* The elements of an array by index.
Items(node) == [i \in 1..ArrayLength(node) |-> GetProp(node, String(i - 1))]

\* The integers of S in ascending order.
Ascending(S) ==
  CHOOSE seq \in [1..Cardinality(S) -> S] :
    \A i, j \in DOMAIN seq : i < j => seq[i] < seq[j]

\* Object.keys(obj): the integer indices ascending, then the other names in
\* the order of their creation.
ObjectKeys(node) ==
  LET indices == Ascending({parseInt(k) : k \in {x \in DOMAIN node.props :
                                                   IsIndex(x)}})
  IN [i \in DOMAIN indices |-> String(indices[i])] \o node.order

\* Object.entries(obj)
ObjectEntries(node) ==
  [i \in DOMAIN ObjectKeys(node) |->
     <<ObjectKeys(node)[i], node.props[ObjectKeys(node)[i]]>>]

\* The truthiness of a value.
Truthy(node) ==
  CASE node.t \in {"undefined", "null"} -> FALSE
    [] node.t = "number" -> node # NaN /\ (~IsNumeric(node.v) \/ parseInt(node.v) # 0)
    [] node.t = "string" -> node.v # <<>>
    [] node.t = "boolean" -> node.v = <<"t", "r", "u", "e">>
    [] OTHER -> TRUE

\* An unsigned decimal: digits, then possibly a point and digits.
IsDecimal(text) ==
  LET points == {i \in DOMAIN text : text[i] = Dot}
  IN /\ text # <<>>
     /\ Cardinality(points) <= 1
     /\ 1 \notin points
     /\ \A i \in DOMAIN text \ points : IsNumeric(<<text[i]>>)

\* A fraction without its trailing zeros.
RECURSIVE TrimZeros(_)
TrimZeros(text) ==
  IF text # <<>> /\ text[Len(text)] = "0"
    THEN TrimZeros(SubSeq(text, 1, Len(text) - 1)) ELSE text

\* The text of the number a decimal denotes: "10.0" is 10, "09.50" is 9.5.
DecimalNumber(text) ==
  LET parts == split(text)
      whole == String(parseInt(parts[1]))
      fraction == IF Len(parts) = 2 THEN TrimZeros(parts[2]) ELSE <<>>
  IN NumberOf(IF fraction = <<>> THEN whole ELSE whole \o <<Dot>> \o fraction)

\* parseFloat(x) of a number, of a string that is an unsigned decimal, and of
\* a value that starts with no number (undefined, null, objects, other text).
parseFloat(node) ==
  IF node.t = "number" THEN node
  ELSE IF node.t = "string" /\ IsDecimal(node.v) THEN DecimalNumber(node.v)
  ELSE NaN

\* A text of the form YYYY-MM-DD.
IsDate(text) ==
  /\ Len(text) = 10
  /\ text[5] = "-" /\ text[8] = "-"
  /\ \A i \in {1, 2, 3, 4, 6, 7, 9, 10} : IsNumeric(<<text[i]>>)

\* new Date(x) as a number that grows with the time value: of a date string,
\* of a number of milliseconds; -1 stands for the NaN of an Invalid Date.
DateValue(node) ==
  IF node.t = "string" /\ IsDate(node.v)
    THEN parseInt(SubSeq(node.v, 1, 4)) * 10000
           + parseInt(SubSeq(node.v, 6, 7)) * 100
           + parseInt(SubSeq(node.v, 9, 10))
  ELSE IF node.t = "number" /\ IsNumeric(node.v) THEN parseInt(node.v)
  ELSE -1

\* row.time of an array element: undefined for a primitive.
TimeOf(row) ==
  IF row.t \in {"object", "array"} THEN GetProp(row, Key.time) ELSE Undefined

\* (a, b) => new Date(a.time) - new Date(b.time), as -1, 0 or 1; a NaN
\* difference counts as 0.
CompareTime(a, b) ==
  LET x == DateValue(TimeOf(a))
      y == DateValue(TimeOf(b))
  IN IF x = -1 \/ y = -1 THEN 0
     ELSE IF x < y THEN -1 ELSE IF x > y THEN 1 ELSE 0

\* Array.prototype.sort with CompareTime: a stable sort. Rows whose dates
\* are all valid or all invalid are ordered consistently by CompareTime.
RECURSIVE InsertByTime(_, _)
InsertByTime(sorted, row) ==
  IF sorted = <<>> THEN <<row>>
  ELSE IF CompareTime(sorted[Len(sorted)], row) > 0
    THEN Append(InsertByTime(SubSeq(sorted, 1, Len(sorted) - 1), row),
                sorted[Len(sorted)])
  ELSE Append(sorted, row)

\* A sort that leaves the rows in the order given.
SortByTime_Unsorted(rows) == rows

RECURSIVE SortByTime(_)
SortByTime(rows) ==
  IF rows = <<>> THEN <<>>
  ELSE InsertByTime(SortByTime(SubSeq(rows, 1, Len(rows) - 1)), rows[Len(rows)])

\* list[i] || null
OrNull(node) == IF Truthy(node) THEN node ELSE Null

\* The first row in place of the last.
LastOrNull_First(rows) == IF rows = <<>> THEN Null ELSE OrNull(rows[1])

LastOrNull(rows) == IF rows = <<>> THEN Null ELSE OrNull(rows[Len(rows)])

looksLikeAlphaTimeSeriesObject(obj) ==
  /\ obj.t = "object"
  /\ ObjectKeys(obj) # <<>>
  /\ ObjectKeys(obj)[1] # <<>>
  /\ LET firstVal == obj.props[ObjectKeys(obj)[1]]
     IN /\ firstVal.t \in {"object", "array"}
        /\ (Alpha.open \in DOMAIN firstVal.props
              \/ Alpha.close \in DOMAIN firstVal.props)

looksLikeFinnhubCandles(obj) ==
  /\ obj.t = "object"
  /\ \A k \in {<<"c">>, <<"h">>, <<"l">>, <<"o">>, <<"t">>, <<"v">>} :
       GetProp(obj, k).t = "array"
  /\ GetProp(obj, <<"s">>).t = "string"

\* What normalizeData returns: list and single (raw, extracted and timestamp
\* are of no concern here), or that it threw.
Result(list, single) == [threw |-> FALSE, list |-> list, single |-> single]
Threw == [threw |-> TRUE, list |-> <<>>, single |-> Null]

\* 2a) the rows of Finnhub candles.
CandleRows(extractedData) ==
  LET column(k) == GetProp(extractedData, k)
      n == ArrayLength(column(<<"t">>))
      at(k, i) == GetProp(column(k), String(i - 1))
  IN [i \in 1..n |->
        ObjectLiteral(<< <<Key.time, at(<<"t">>, i)>>,
                         <<Key.open, at(<<"o">>, i)>>,
                         <<Key.high, at(<<"h">>, i)>>,
                         <<Key.low, at(<<"l">>, i)>>,
                         <<Key.close, at(<<"c">>, i)>>,
                         <<Key.volume, at(<<"v">>, i)>> >>)]

\* 2b) the rows of an Alpha Vantage series, before they are sorted; reading
\* ohlc["1. open"] of a null entry throws.
AlphaRow(timestamp, ohlc) ==
  LET field(k) == IF ohlc.t \in {"object", "array"} THEN GetProp(ohlc, k)
                  ELSE Undefined
  IN ObjectLiteral(<< <<Key.time, StringOf(timestamp)>>,
                      <<Key.open, parseFloat(field(Alpha.open))>>,
                      <<Key.high, parseFloat(field(Alpha.high))>>,
                      <<Key.low, parseFloat(field(Alpha.low))>>,
                      <<Key.close, parseFloat(field(Alpha.close))>>,
                      <<Key.volume, parseFloat(field(Alpha.volume))>> >>)

AlphaRows(extractedData) ==
  LET entries == ObjectEntries(extractedData)
  IN [i \in DOMAIN entries |-> AlphaRow(entries[i][1], entries[i][2])]

\* 2d) the rows of an object of another shape: { key, ...val } or
\* { key, value: val }.
RECURSIVE Assign(_, _)
Assign(target, entries) ==
  IF entries = <<>> THEN target
  ELSE Assign(SetProp(target, entries[1][1], entries[1][2]), Tail(entries))

FlatRow(key, val) ==
  IF val.t \in {"object", "array"}
    THEN Assign(ObjectLiteral(<< <<Key.key, StringOf(key)>> >>),
                ObjectEntries(val))
    ELSE ObjectLiteral(<< <<Key.key, StringOf(key)>>, <<Key.value, val>> >>)

FlatRows(extractedData) ==
  LET entries == ObjectEntries(extractedData)
  IN [i \in DOMAIN entries |-> FlatRow(entries[i][1], entries[i][2])]

\* 2) the chart widget.
normalizeChart(extractedData) ==
  IF looksLikeFinnhubCandles(extractedData)
    THEN Result(CandleRows(extractedData),
                LastOrNull(CandleRows(extractedData)))
  ELSE IF looksLikeAlphaTimeSeriesObject(extractedData)
    THEN IF \E k \in DOMAIN extractedData.props :
              extractedData.props[k].t \in {"null", "undefined"}
           THEN Threw
           ELSE Result(SortByTime(AlphaRows(extractedData)),
                       LastOrNull(SortByTime(AlphaRows(extractedData))))
  ELSE IF extractedData.t = "array"
    THEN LET list == Items(extractedData)
         IN IF list = <<>> THEN Result(list, Null)
            ELSE IF list[1].t \notin {"object", "array"} THEN Threw
            ELSE IF Key.time \notin DOMAIN list[1].props
              THEN Result(list, LastOrNull(list))
            ELSE IF Len(list) > 1
                      /\ \E i \in DOMAIN list :
                           list[i].t \in {"null", "undefined"}
              THEN Threw
            ELSE Result(SortByTime(list), LastOrNull(SortByTime(list)))
  ELSE IF extractedData.t = "object"
    THEN Result(FlatRows(extractedData), LastOrNull(FlatRows(extractedData)))
  ELSE Result(<<>>, Null)

\* 3) cards and tables.
normalizeGeneric(extractedData) ==
  IF extractedData.t = "array"
    THEN Result(Items(extractedData),
                OrNull(GetProp(extractedData, <<"0">>)))
  ELSE IF extractedData.t = "object"
    THEN Result(<<extractedData>>, extractedData)
  ELSE LET single == ObjectLiteral(<< <<Key.value, extractedData>> >>)
       IN Result(<<single>>, single)

normalizeData(widget, extractedData) ==
  IF extractedData.t \in {"null", "undefined"} THEN Result(<<>>, Null)
  ELSE IF widget.type = "chart" THEN normalizeChart(extractedData)
  ELSE normalizeGeneric(extractedData)

\* `_${key}_raw`
RawKey(key) == <<"_">> \o key \o <<"_", "r", "a", "w">>

\* The object `processed` of one list item: each field's value under its key
\* and under its raw key.
RECURSIVE ProcessedFields(_, _)
ProcessedFields(item, fields) ==
  IF fields = <<>> THEN ObjectOf(NoProps)
  ELSE LET key == fields[Len(fields)]
           before == ProcessedFields(item, SubSeq(fields, 1, Len(fields) - 1))
       IN SetProp(SetProp(before, key, getByPath(item, key)),
                  RawKey(key), getByPath(item, key))

\* { ...item, ...processed }
ProcessedItem(item, fields) ==
  Assign(SpreadObject(item), ObjectEntries(ProcessedFields(item, fields)))

\* { ...single } with each field's value under its key.
RECURSIVE ProcessedSingle(_, _)
ProcessedSingle(single, fields) ==
  IF fields = <<>> THEN SpreadObject(single)
  ELSE LET key == fields[Len(fields)]
       IN SetProp(ProcessedSingle(single, SubSeq(fields, 1, Len(fields) - 1)),
                  key, getByPath(single, key))

\* fields holds the key of each configured field.
processDataWithFields(data, fields) ==
  IF fields = <<>> THEN Result(data.list, data.single)
  ELSE Result([i \in DOMAIN data.list |-> ProcessedItem(data.list[i], fields)],
              IF Truthy(data.single)
                THEN ProcessedSingle(data.single, fields) ELSE Null)

\* ----------------------------------------------------------------- state
NoUrl == ""
Urls == {"u1", "u2"}
Hooks == {"h1", "h2", "h3"}

\* The widget each hook instance renders (instanceId = widgetId): h3 is the
\* drag overlay's second WidgetCard of the widget h1 renders.
WidgetOf(h) == IF h = "h2" THEN "w2" ELSE "w1"

VARIABLES
  registry,   \* refreshIntervalRegistry
  hooks,      \* per useApiData instance: phase, props, observer options
  queries,    \* query cache: the state of the query ["api-data", url]
  requests,   \* outbound requests not yet answered
  nextId,     \* number of outbound requests started so far
  fetchCount, \* per URL: number of queryFn invocations
  trigger,    \* per URL: what triggered the current or last fetch, and the
              \* number of attempts (outbound requests) it has made
  done,       \* per URL: the request answered most recently and its answer
  registered, \* the subscribers in effect: (url, widgetId, interval) of every
              \* registration not yet unregistered or replaced
  jsonObj,    \* SpecPath: the arguments of setByPath ...
  jsonPath,
  jsonValue,
  jsonResult, \* ... what it returned ...
  jsonFound,  \* ... and what getByPath finds there
  jsonStep,   \* "args", "set" or "got"; "off" outside SpecPath
  normWidget,    \* SpecNormalize: the widget (type, fields) ...
  normExtracted, \* ... the value found at its dataPath ...
  normalized,    \* ... what normalizeData returned for them ...
  projected,     \* ... and what processDataWithFields made of that
  normStep,      \* "extracted", "normalized" or "projected"; "off" elsewhere
  silent,        \* the outbound requests no answer will ever come to
  attemptIndex,  \* SpecDelay: the arguments of two calls of retryDelay ...
  delay,         \* ... and what they returned; << >> before the calls
  widgets,       \* the dashboard store's widgets: id and layoutOrder of each
  nextWidget,    \* number of ids generateId has produced so far
  lastAction     \* the store action that ran last; "none" before the first

cacheVars ==
  <<registry, hooks, queries, requests, nextId, fetchCount, trigger, done,
    registered>>
jsonVars == <<jsonObj, jsonPath, jsonValue, jsonResult, jsonFound, jsonStep>>
normVars == <<normWidget, normExtracted, normalized, projected, normStep>>
\* What no step of the cache changes.
delayVars == <<attemptIndex, delay>>
storeVars == <<widgets, nextWidget, lastAction>>
\* What only the specification of its own changes.
idleVars == <<silent, delayVars, storeVars>>
pureVars == <<jsonVars, normVars, idleVars>>
vars == <<cacheVars, jsonVars, normVars, idleVars>>

\* Query client defaults (Providers).
refetchOnWindowFocus == "always"
refetchOnMount == "never"
refetchOnReconnect == "always"

NoData == [seq |-> 0, truthy |-> FALSE]
NoResp == [kind |-> "none", msg |-> {}, status |-> 0,
           body |-> PlainBody("invalid")]

\* The state of a query nothing has fetched yet.
Query0 ==
  [status |-> "pending", fetchStatus |-> "idle", data |-> NoData,
   error |-> NoError, fetchFailureCount |-> 0, fetchFailureReason |-> NoError,
   isInvalidated |-> FALSE, fresh |-> FALSE, retryCancelled |-> FALSE]

Hook0 ==
  [phase |-> "unmounted", apiUrl |-> NoUrl, refreshIntervalSec |-> 0,
   refetchInterval |-> 0]

InitCache ==
  /\ registry = << >>
  /\ hooks = [h \in Hooks |-> Hook0]
  /\ queries = [u \in Urls |-> Query0]
  /\ requests = {}
  /\ nextId = 0
  /\ fetchCount = [u \in Urls |-> 0]
  /\ trigger = [u \in Urls |-> [cause |-> "none", attempts |-> 0]]
  /\ done = [u \in Urls |-> [id |-> 0, active |-> FALSE, resp |-> NoResp]]
  /\ registered = {}

InitJson ==
  /\ jsonObj = Undefined
  /\ jsonPath = <<>>
  /\ jsonValue = Undefined
  /\ jsonResult = Undefined
  /\ jsonFound = Undefined
  /\ jsonStep = "off"

NoResult == [threw |-> FALSE, list |-> <<>>, single |-> Null]

InitNorm ==
  /\ normWidget = [type |-> "card", fields |-> <<>>]
  /\ normExtracted = Undefined
  /\ normalized = NoResult
  /\ projected = NoResult
  /\ normStep = "off"

InitNet == silent = {}

InitDelay ==
  /\ attemptIndex = <<0, 0>>
  /\ delay = << >>

\* initialWidgets: three demo widgets, layoutOrder 0, 1 and 2.
initialWidgets ==
  [i \in 1..3 |-> [id |-> i, name |-> <<"demo">>, layoutOrder |-> i - 1]]

InitStore ==
  /\ widgets = initialWidgets
  /\ nextWidget = Len(initialWidgets)
  /\ lastAction = "none"

InitIdle == InitNet /\ InitDelay /\ InitStore

Init == InitCache /\ InitJson /\ InitNorm /\ InitIdle

\* ------------------------------------------------------- the query cache
\* The part of the state a fetch changes.
Cache == [q |-> queries, r |-> requests, n |-> nextId, c |-> fetchCount]

\* enabled: enabled && Boolean(apiUrl), with enabled: Boolean(apiUrl) passed
\* by useWidgetData.
Enabled(url) == url # NoUrl

\* The observers of a query: the subscribed hook instances whose key is url.
Observers(hs, url) == {h \in Hooks : hs[h].phase = "mounted" /\ hs[h].apiUrl = url}

ActiveRequests(rs, url) == {r \in rs : r.url = url /\ r.active}

\* A retryer runs queryFn once more: one more outbound request.
RunQueryFn(S, url) ==
  [S EXCEPT !.r = @ \cup {[id |-> S.n + 1, url |-> url, active |-> TRUE]},
            !.n = @ + 1,
            !.c[url] = @ + 1]

\* A cancel that leaves the retryer attached to the query.
CancelSilent_Attached(S, url) == S

\* Query.cancel({silent: true}): the retryer is rejected; queryFn does not use
\* the abort signal, so the request stays outstanding and its answer is dropped.
CancelSilent(S, url) ==
  [S EXCEPT !.r = {IF r.url = url THEN [r EXCEPT !.active = FALSE] ELSE r : r \in @}]

\* dispatch({type: 'fetch'}) followed by the start of a new retryer.
StartFetch(S, url) ==
  LET q == S.q[url]
      fetching == [q EXCEPT !.fetchStatus = "fetching",
                            !.fetchFailureCount = 0,
                            !.fetchFailureReason = NoError,
                            !.retryCancelled = FALSE,
                            !.status = IF q.data = NoData THEN "pending" ELSE @,
                            !.error = IF q.data = NoData THEN NoError ELSE @]
  IN RunQueryFn([S EXCEPT !.q[url] = fetching], url)

\* A fetch that does not return the promise of the fetch in flight.
fetch_NoDedupe(S, url, cancelRefetch) == StartFetch(S, url)

\* Query.fetch(options, fetchOptions).
fetch(S, url, cancelRefetch) ==
  IF S.q[url].fetchStatus # "idle"
    THEN IF S.q[url].data # NoData /\ cancelRefetch
           THEN StartFetch(CancelSilent(S, url), url)
           ELSE [S EXCEPT !.q[url].retryCancelled = FALSE]
    ELSE StartFetch(S, url)

\* Query.invalidate().
invalidate(S, url) == [S EXCEPT !.q[url].isInvalidated = TRUE]

\* isStale(query, options) with staleTime 30 s.
isStale(q) == q.isInvalidated \/ q.data = NoData \/ ~q.fresh

\* shouldFetchOn(query, options, field).
shouldFetchOn(q, url, field) ==
  Enabled(url) /\ (field = "always" \/ (field # "never" /\ isStale(q)))

shouldFetchOnMount(q, url) ==
  \/ Enabled(url) /\ q.data = NoData
  \/ q.data # NoData /\ shouldFetchOn(q, url, refetchOnMount)

\* Query.removeObserver: the last observer leaving cancels further retries.
removeObserver(S, hs, url) ==
  IF Observers(hs, url) = {} /\ S.q[url].fetchStatus = "fetching"
    THEN [S EXCEPT !.q[url].retryCancelled = TRUE]
    ELSE S

\* -------------------------------------------------------- hook instances
\* The registration effect of useApiData (lines 104-113): register the
\* interval and mark the query invalidated without refetching.
RegisterEffect(reg, h, url, interval) ==
  IF Enabled(url) THEN registerInterval(reg, url, WidgetOf(h), interval) ELSE reg

\* Its cleanup (lines 115-119), closed over the URL of the run it cleans up.
CleanupEffect(reg, h, url) ==
  IF url # NoUrl THEN unregisterInterval(reg, url, WidgetOf(h)) ELSE reg

\* The subscribers in effect after a registration / an unregistration of
\* widget w for url.
Subscribed(subs, url, w, interval) ==
  IF Enabled(url)
    THEN {t \in subs : ~(t.url = url /\ t.widgetId = w)}
           \cup {[url |-> url, widgetId |-> w, interval |-> interval]}
    ELSE subs

Unsubscribed(subs, url, w) == {t \in subs : ~(t.url = url /\ t.widgetId = w)}

\* refetchInterval: effectiveInterval > 0 ? effectiveInterval * 1000 : false,
\* kept in seconds, 0 for false; read from the registry while rendering.
RefetchIntervalOption(reg, url) ==
  IF getShortestInterval(reg, url) > 0 THEN getShortestInterval(reg, url) ELSE 0

\* The result properties useWidgetData reads from useQuery: an observer
\* notifies its component only when one of them changes.
TrackedResult(q) == <<q.data, q.status, q.error, q.fetchStatus>>

\* The hooks after the cache changed from `queries` to S.q: every subscribed
\* instance whose tracked result changed renders again, reading the registry.
\* The instances in `self` are rendering in this very step.
Notified(hs, reg, S, self) ==
  [h \in Hooks |->
     IF /\ h \notin self
        /\ hs[h].phase = "mounted"
        /\ Enabled(hs[h].apiUrl)
        /\ TrackedResult(S.q[hs[h].apiUrl]) # TrackedResult(queries[hs[h].apiUrl])
       THEN [hs[h] EXCEPT !.refetchInterval =
                            RefetchIntervalOption(reg, hs[h].apiUrl)]
       ELSE hs[h]]

\* One step's effect on the cache; `cause` names the step for the fetch it
\* triggers.
Put(S, cause) ==
  /\ queries' = S.q
  /\ requests' = S.r
  /\ nextId' = S.n
  /\ fetchCount' = S.c
  /\ trigger' = [u \in Urls |->
       IF S.c[u] = fetchCount[u] THEN trigger[u]
       ELSE IF cause = "retry"
         THEN [trigger[u] EXCEPT !.attempts = @ + 1]
         ELSE [cause |-> cause, attempts |-> 1]]
  /\ UNCHANGED pureVars

\* First render of a hook instance: the body of useApiData runs, effects have
\* not run yet.
Render(h, url, interval) ==
  /\ hooks[h].phase = "unmounted"
  /\ hooks' = [hooks EXCEPT ![h] =
       [phase |-> "rendered", apiUrl |-> url, refreshIntervalSec |-> interval,
        refetchInterval |-> RefetchIntervalOption(registry, url)]]
  /\ UNCHANGED <<registry, queries, requests, nextId, fetchCount, trigger,
                 done, registered, pureVars>>

\* The effects of the first commit: the registration effect, then the
\* observer subscribes (onSubscribe) and starts its timer.
Commit(h) ==
  LET url == hooks[h].apiUrl
      reg == RegisterEffect(registry, h, url, hooks[h].refreshIntervalSec)
      hs == [hooks EXCEPT ![h].phase = "mounted"]
      S1 == IF Enabled(url) THEN invalidate(Cache, url) ELSE Cache
      S2 == IF Enabled(url) /\ shouldFetchOnMount(S1.q[url], url)
              THEN fetch(S1, url, FALSE) ELSE S1
  IN /\ hooks[h].phase = "rendered"
     /\ registry' = reg
     /\ registered' = Subscribed(registered, url, WidgetOf(h),
                                 hooks[h].refreshIntervalSec)
     /\ hooks' = Notified(hs, reg, S2, {h})
     /\ Put(S2, "mount")
     /\ UNCHANGED done

\* A later render with the props (url, interval), followed by its effects: the
\* registration effect re-runs when a dependency changed, then setOptions
\* moves the observer to the query of the new key and fetches it when stale.
Rerender(h, url, interval) ==
  LET old == hooks[h]
      w == WidgetOf(h)
      changed == old.apiUrl # url \/ old.refreshIntervalSec # interval
      reg1 == IF changed THEN CleanupEffect(registry, h, old.apiUrl) ELSE registry
      reg2 == IF changed THEN RegisterEffect(reg1, h, url, interval) ELSE reg1
      hs == [hooks EXCEPT ![h] =
               [phase |-> "mounted", apiUrl |-> url,
                refreshIntervalSec |-> interval,
                refetchInterval |-> RefetchIntervalOption(registry, url)]]
      S1 == IF changed /\ Enabled(url) THEN invalidate(Cache, url) ELSE Cache
      S2 == IF old.apiUrl # url /\ Enabled(old.apiUrl)
              THEN removeObserver(S1, hs, old.apiUrl) ELSE S1
      S3 == IF old.apiUrl # url /\ Enabled(url) /\ isStale(S2.q[url])
              THEN fetch(S2, url, FALSE) ELSE S2
  IN /\ old.phase = "mounted"
     /\ registry' = reg2
     /\ registered' =
          IF changed
            THEN Subscribed(Unsubscribed(registered, old.apiUrl, w), url, w,
                            interval)
            ELSE registered
     /\ hooks' = Notified(hs, reg2, S3, {h})
     /\ Put(S3, "rerender")
     /\ UNCHANGED done

\* Unmount: the cleanup of the registration effect and the observer's
\* unsubscribe.
Unmount(h) ==
  LET url == hooks[h].apiUrl
      hs == [hooks EXCEPT ![h] = Hook0]
      S1 == IF Enabled(url) THEN removeObserver(Cache, hs, url) ELSE Cache
  IN /\ hooks[h].phase = "mounted"
     /\ registry' = CleanupEffect(registry, h, url)
     /\ registered' = Unsubscribed(registered, url, WidgetOf(h))
     /\ hooks' = hs
     /\ Put(S1, "unmount")
     /\ UNCHANGED done

\* A step of the cache alone: the registry stays, the observers of a query
\* whose result changed render again.
CacheStep(S, cause) ==
  /\ Put(S, cause)
  /\ hooks' = Notified(hooks, registry, S, {})
  /\ UNCHANGED <<registry, registered>>

\* The observer's refetchInterval timer fires.
Poll(h) ==
  LET url == hooks[h].apiUrl
  IN /\ hooks[h].phase = "mounted"
     /\ Enabled(url)
     /\ hooks[h].refetchInterval > 0
     /\ CacheStep(fetch(Cache, url, FALSE), "poll")
     /\ UNCHANGED done

\* refetch() of the hook's result (the retry button): observer.refetch(), whose
\* cancelRefetch defaults to true.
Refetch(h) ==
  LET url == hooks[h].apiUrl
  IN /\ hooks[h].phase = "mounted"
     /\ Enabled(url)
     /\ CacheStep(fetch(Cache, url, TRUE), "refetch")
     /\ UNCHANGED done

\* The function useRefreshApi(url) returns: invalidateQueries, which marks the
\* query invalidated and refetches it when it has an enabled observer.
RefreshApi(url) ==
  LET S1 == invalidate(Cache, url)
      S2 == IF Observers(hooks, url) # {} THEN fetch(S1, url, TRUE) ELSE S1
  IN /\ CacheStep(S2, "refresh")
     /\ UNCHANGED done

\* The function usePrefetchApi returns: prefetchQuery fetches, with its own
\* queryFn, when the data is stale (staleTime 30 s) or absent, and joins a
\* fetch in flight.
Prefetch(url) ==
  LET S == IF isStale(queries[url]) THEN fetch(Cache, url, FALSE) ELSE Cache
  IN /\ CacheStep(S, "prefetch")
     /\ UNCHANGED done

\* queryCache.onFocus / onOnline: every query with an observer whose
\* refetchOnWindowFocus / refetchOnReconnect says so is refetched, without
\* cancelling a fetch in flight.
RECURSIVE RefetchOn(_, _, _)
RefetchOn(S, us, field) ==
  IF us = {} THEN S
  ELSE LET u == CHOOSE x \in us : TRUE
           S1 == IF Observers(hooks, u) # {} /\ shouldFetchOn(S.q[u], u, field)
                   THEN fetch(S, u, FALSE) ELSE S
       IN RefetchOn(S1, us \ {u}, field)

WindowFocus ==
  /\ CacheStep(RefetchOn(Cache, Urls, refetchOnWindowFocus), "focus")
  /\ UNCHANGED done

Reconnect ==
  /\ CacheStep(RefetchOn(Cache, Urls, refetchOnReconnect), "reconnect")
  /\ UNCHANGED done

\* The 30 s staleTime of a query's data runs out.
StaleTimeElapses(url) ==
  /\ queries[url].fresh
  /\ queries' = [queries EXCEPT ![url].fresh = FALSE]
  /\ UNCHANGED <<registry, hooks, requests, nextId, fetchCount, trigger,
                 done, registered, pureVars>>

\* ------------------------------------------------------ request outcomes
\* dispatch({type: 'success'}).
Succeed(q, r, resp) ==
  [q EXCEPT !.data = [seq |-> r.id,
                      truthy |-> resp.body.parse \in {"primitive", "object"}],
            !.status = "success", !.error = NoError, !.isInvalidated = FALSE,
            !.fetchStatus = "idle", !.fetchFailureCount = 0,
            !.fetchFailureReason = NoError, !.fresh = TRUE]

\* dispatch({type: 'error'}): the data of an earlier success stays.
Fail(q, error) ==
  [q EXCEPT !.error = error, !.status = "error", !.fetchStatus = "idle",
            !.fetchFailureCount = @ + 1, !.fetchFailureReason = error]

\* The retryer after a rejected attempt: retry(failureCount, error) decides
\* between another attempt after retryDelay and giving up.
AfterFailure(q, error) ==
  IF ~q.retryCancelled /\ retry(q.fetchFailureCount, error)
    THEN [q EXCEPT !.fetchFailureCount = @ + 1, !.fetchFailureReason = error]
    ELSE Fail(q, error)

\* The answer to an outbound request arrives and queryFn finishes; the answer
\* to a request of a cancelled retryer is dropped. A fetch that prefetchQuery
\* started runs the queryFn given to prefetchQuery (its errors have no type,
\* so the default retry: 2 and the retry option of useApiData agree on them).
Complete(r, resp) ==
  LET q == queries[r.url]
      res == IF trigger[r.url].cause = "prefetch" THEN prefetchQueryFn(resp)
             ELSE queryFn(resp)
      q1 == IF ~r.active THEN q
            ELSE IF res.ok THEN Succeed(q, r, resp)
            ELSE AfterFailure(q, res.error)
  IN /\ r \in requests
     /\ CacheStep([Cache EXCEPT !.q[r.url] = q1, !.r = @ \ {r}], "complete")
     /\ done' = [done EXCEPT ![r.url] =
                   [id |-> r.id, active |-> r.active, resp |-> resp]]

\* The retry delay of a failed attempt is over.
RetryFire(url) ==
  LET q == queries[url]
  IN /\ q.fetchStatus = "fetching"
     /\ ActiveRequests(requests, url) = {}
     /\ IF q.retryCancelled
          THEN CacheStep([Cache EXCEPT !.q[url] = Fail(q, q.fetchFailureReason)],
                         "retry")
          ELSE CacheStep(RunQueryFn(Cache, url), "retry")
     /\ UNCHANGED done

\* --------------------------------------------------------- specification
\* nextId stays within n: the bound of a specification on outbound requests.
Within(n) == nextId' <= n

\* Answers, one for every rule of the classifier and of queryFn.
OkObject == Http(200, PlainBody("object"))
OkFalsy == Http(200, PlainBody("falsy"))
RateLimitNote == Http(200, Body("object", "freq", FALSE, FALSE, FALSE, -1))
RateLimitCode == Http(200, Body("object", "absent", FALSE, FALSE, TRUE, -1))
InfoAndRateLimitCode == Http(200, Body("object", "absent", TRUE, FALSE, TRUE, -1))
ServerDown == Http(500, PlainBody("invalid"))

Responses ==
  { Thrown({"timeout"}), Thrown({"network"}), Thrown({"cors"}), Thrown({}),
    OkObject, OkFalsy, Http(200, PlainBody("invalid")),
    RateLimitNote, RateLimitCode, InfoAndRateLimitCode,
    Http(200, Body("object", "absent", TRUE, FALSE, FALSE, -1)),
    Http(200, Body("object", "nonstring", FALSE, FALSE, FALSE, -1)),
    Http(400, PlainBody("invalid")), Http(401, PlainBody("invalid")),
    Http(404, PlainBody("object")), Http(429, PlainBody("invalid")),
    ServerDown, Http(418, PlainBody("invalid")) }

\* Spec: the shared cache with two widgets on one URL; the answers are a
\* success, a retried failure and a failure that is not retried.
CacheHooks == {"h1", "h2"}
CacheUrl == "u1"
CacheIntervals == {0, 10}
CacheResponses == {OkObject, ServerDown, RateLimitNote}

Next ==
  \/ \E h \in CacheHooks, i \in CacheIntervals : Render(h, CacheUrl, i)
  \/ \E h \in CacheHooks : Commit(h) /\ Within(MaxRequests)
  \/ \E h \in CacheHooks :
       Rerender(h, CacheUrl, hooks[h].refreshIntervalSec) /\ Within(MaxRequests)
  \/ \E h \in CacheHooks : Unmount(h)
  \/ \E h \in CacheHooks : Poll(h) /\ Within(MaxRequests)
  \/ \E h \in CacheHooks : Refetch(h) /\ Within(MaxRequests)
  \/ RefreshApi(CacheUrl) /\ Within(MaxRequests)
  \/ WindowFocus /\ Within(MaxRequests)
  \/ Reconnect /\ Within(MaxRequests)
  \/ StaleTimeElapses(CacheUrl)
  \/ \E r \in requests, resp \in CacheResponses : Complete(r, resp)
  \/ RetryFire(CacheUrl) /\ Within(MaxRequests)

Spec == Init /\ [][Next]_vars

\* SpecRetry: one widget on one URL, every answer of Responses.
RetryHook == "h1"

NextRetry ==
  \/ Render(RetryHook, CacheUrl, 0)
  \/ Commit(RetryHook) /\ Within(MaxRetryRequests)
  \/ Unmount(RetryHook)
  \/ Refetch(RetryHook) /\ Within(MaxRetryRequests)
  \/ \E r \in requests, resp \in Responses : Complete(r, resp)
  \/ RetryFire(CacheUrl) /\ Within(MaxRetryRequests)

SpecRetry == Init /\ [][NextRetry]_vars

\* SpecInterval: two widgets that subscribe to either URL, change their URL
\* and interval and leave; every request succeeds.
IntervalChoices == {0, 10, 30}

NextInterval ==
  \/ \E h \in CacheHooks, u \in Urls, i \in IntervalChoices : Render(h, u, i)
  \/ \E h \in CacheHooks : Commit(h) /\ Within(MaxIntervalRequests)
  \/ \E h \in CacheHooks, u \in Urls, i \in IntervalChoices :
       Rerender(h, u, i) /\ Within(MaxIntervalRequests)
  \/ \E h \in CacheHooks : Unmount(h)
  \/ \E h \in CacheHooks : Poll(h) /\ Within(MaxIntervalRequests)
  \/ \E r \in requests : Complete(r, OkObject)

SpecInterval == Init /\ [][NextInterval]_vars

\* SpecTimeout: one widget on one URL; the network answers a request or
\* leaves it without an answer for ever. queryFn awaits fetch(apiUrl) with no
\* timer and no abort signal, so nothing else ends a request. Every answer
\* that is to come does come, and every retry delay ends.
MaxTimeoutRequests == 3

NoAnswer(r) ==
  /\ r \in requests
  /\ r.id \notin silent
  /\ silent' = silent \cup {r.id}
  /\ UNCHANGED <<cacheVars, jsonVars, normVars, delayVars, storeVars>>

Answer ==
  \E r \in requests, resp \in CacheResponses :
    r.id \notin silent /\ Complete(r, resp)

NextTimeout ==
  \/ Render(RetryHook, CacheUrl, 0)
  \/ Commit(RetryHook) /\ Within(MaxTimeoutRequests)
  \/ Refetch(RetryHook) /\ Within(MaxTimeoutRequests)
  \/ \E r \in requests : NoAnswer(r)
  \/ Answer
  \/ RetryFire(CacheUrl)

SpecTimeout ==
  /\ Init
  /\ [][NextTimeout]_vars
  /\ WF_vars(Answer)
  /\ WF_vars(RetryFire(CacheUrl))

\* SpecPrefetch: one widget on one URL that is also prefetched and
\* refreshed.
MaxPrefetchRequests == 3

NextPrefetch ==
  \/ Render(RetryHook, CacheUrl, 0)
  \/ Commit(RetryHook) /\ Within(MaxPrefetchRequests)
  \/ Refetch(RetryHook) /\ Within(MaxPrefetchRequests)
  \/ RefreshApi(CacheUrl) /\ Within(MaxPrefetchRequests)
  \/ Prefetch(CacheUrl) /\ Within(MaxPrefetchRequests)
  \/ \E r \in requests, resp \in CacheResponses : Complete(r, resp)
  \/ RetryFire(CacheUrl) /\ Within(MaxPrefetchRequests)

SpecPrefetch == Init /\ [][NextPrefetch]_vars

\* SpecClassify: one widget fetches once; the answer has any of the statuses
\* and bodies below.
ClassifyStatuses == {200, 400, 401, 403, 404, 429, 500, 502, 503, 504, 418}
ClassifyBodies ==
  {PlainBody("invalid"), PlainBody("falsy"), PlainBody("primitive")}
    \cup {Body(parse, "absent", FALSE, FALSE, FALSE, hint) :
            parse \in {"invalid", "object"}, hint \in {0, 30}}
    \cup {Body("object", note, info, errmsg, code429, -1) :
            note \in {"absent", "freq", "other"},
            info \in BOOLEAN, errmsg \in BOOLEAN, code429 \in BOOLEAN}
ClassifyResponses ==
  {Http(status, body) : status \in ClassifyStatuses, body \in ClassifyBodies}
    \cup {Thrown(msg) : msg \in SUBSET {"timeout", "network", "cors"}}

NextClassify ==
  \/ Render(RetryHook, CacheUrl, 0)
  \/ Commit(RetryHook)
  \/ \E r \in requests, resp \in ClassifyResponses : Complete(r, resp)

SpecClassify == Init /\ [][NextClassify]_vars

\* SpecView: one widget with or without a URL, which gets and loses its URL;
\* the answers are data, a falsy body and a failure.
MaxViewRequests == 2

NextView ==
  \/ \E u \in {CacheUrl, NoUrl} : Render(RetryHook, u, 0)
  \/ Commit(RetryHook) /\ Within(MaxViewRequests)
  \/ \E u \in {CacheUrl, NoUrl} :
       Rerender(RetryHook, u, 0) /\ Within(MaxViewRequests)
  \/ Unmount(RetryHook)
  \/ Refetch(RetryHook) /\ Within(MaxViewRequests)
  \/ \E r \in requests, resp \in {OkObject, OkFalsy, ServerDown} :
       Complete(r, resp)
  \/ RetryFire(CacheUrl) /\ Within(MaxViewRequests)

SpecView == Init /\ [][NextView]_vars

\* SpecOverlay: one widget that changes its URL and interval, loses its URL
\* and leaves; while it is mounted a drag shows the same widget a second time
\* in the DragOverlay (DashboardGrid), which unmounts when the drag ends. The
\* widget is neither reconfigured nor removed during a drag.
MaxOverlayRequests == 2
OverlayHook == "h3"
Dragging == hooks[OverlayHook].phase # "unmounted"

NextOverlay ==
  \/ \E u \in Urls \cup {NoUrl}, i \in CacheIntervals : Render(RetryHook, u, i)
  \/ \E h \in {RetryHook, OverlayHook} : Commit(h) /\ Within(MaxOverlayRequests)
  \/ \E u \in Urls \cup {NoUrl}, i \in CacheIntervals :
       ~Dragging /\ Rerender(RetryHook, u, i) /\ Within(MaxOverlayRequests)
  \/ /\ hooks[RetryHook].phase = "mounted"
     /\ Render(OverlayHook, hooks[RetryHook].apiUrl,
               hooks[RetryHook].refreshIntervalSec)
  \/ ~Dragging /\ Unmount(RetryHook)
  \/ Unmount(OverlayHook)
  \/ \E r \in requests : Complete(r, OkObject)

SpecOverlay == Init /\ [][NextOverlay]_vars

\* SpecPath: setByPath, then getByPath with the same path on what it
\* returned, for every root, path and value of the sets below.
MaxPathKeys == 2

PathKeys == {<<"a">>, <<"0">>, <<"7">>, <<"0", "0", "7">>}
Paths ==
  UNION {{join(keys) : keys \in [1..n -> PathKeys]} : n \in 1..MaxPathKeys}

One == NumberOf(<<"1">>)
Two == NumberOf(<<"2">>)
Leaves == {Null, One, StringOf(<<"x">>)}
Inner ==
  Leaves \cup {ObjectOf(NoProps), ArrayOf(NoProps)}
    \cup {ObjectOf([k \in {<<"a">>} |-> x]) : x \in Leaves}
    \cup {ArrayOf(Elements(<<x>>)) : x \in Leaves}
Roots ==
  {ObjectOf(NoProps), ArrayOf(NoProps)}
    \cup {ObjectOf([k \in {<<"a">>} |-> x]) : x \in Inner}
    \cup {ArrayOf(Elements(<<x>>)) : x \in Inner}
Values == {Two, Null, ArrayOf(NoProps)}

\* The tree of the caller: every object and array in it has an identity, the
\* keys that lead to it from the root.
RootId == <<LengthKey>>
RECURSIVE Identified(_, _)
Identified(node, id) ==
  IF node.t \in {"object", "array"}
    THEN [node EXCEPT !.id = id,
                      !.props = [k \in DOMAIN node.props |->
                                   Identified(node.props[k], id \o <<k>>)]]
    ELSE node

InitPath ==
  /\ InitCache
  /\ InitNorm
  /\ InitIdle
  /\ jsonObj \in {Identified(root, RootId) : root \in Roots}
  /\ jsonPath \in Paths
  /\ jsonValue \in Values
  /\ jsonResult = Undefined
  /\ jsonFound = Undefined
  /\ jsonStep = "args"

SetByPath ==
  /\ jsonStep = "args"
  /\ jsonResult' = setByPath(jsonObj, jsonPath, jsonValue)
  /\ jsonStep' = "set"
  /\ UNCHANGED <<cacheVars, normVars, idleVars, jsonObj, jsonPath, jsonValue,
                 jsonFound>>

GetByPath ==
  /\ jsonStep = "set"
  /\ jsonFound' = getByPath(jsonResult, jsonPath)
  /\ jsonStep' = "got"
  /\ UNCHANGED <<cacheVars, normVars, idleVars, jsonObj, jsonPath, jsonValue,
                 jsonResult>>

NextPath == SetByPath \/ GetByPath

SpecPath == InitPath /\ [][NextPath]_vars

\* SpecGet: getByPath on a root as a response delivers it, with a path that
\* may be empty, leave the root early or name the length of an array.
MaxGetKeys == 2

GetKeys == {<<"a">>, <<"0">>, <<"1">>, LengthKey}
GetPaths ==
  {<<>>} \cup
    UNION {{join(keys) : keys \in [1..n -> GetKeys]} : n \in 1..MaxGetKeys}
GetRoots == Roots \cup {Null, One}

InitGet ==
  /\ InitCache
  /\ InitNorm
  /\ InitIdle
  /\ jsonObj \in GetRoots
  /\ jsonPath \in GetPaths
  /\ jsonValue = Undefined
  /\ jsonResult = Undefined
  /\ jsonFound = Undefined
  /\ jsonStep = "root"

GetFromRoot ==
  /\ jsonStep = "root"
  /\ jsonFound' = getByPath(jsonObj, jsonPath)
  /\ jsonStep' = "found"
  /\ UNCHANGED <<cacheVars, normVars, idleVars, jsonObj, jsonPath, jsonValue,
                 jsonResult>>

NextGet == GetFromRoot

SpecGet == InitGet /\ [][NextGet]_vars

\* ------------------------------------------- specification: normalizeData
\* The widget types and the field lists of the widgets.
WidgetTypes == {"card", "table", "chart"}
FieldLists == {<<>>, <<Key.close>>, <<Key.close, Key.value>>}

\* The day d of January 2024 as a date.
Jan(d) == <<"2", "0", "2", "4", "-", "0", "1", "-", "0", d>>

\* Finnhub candles: two of them, and none.
Candles ==
  ObjectLiteral(<<<<<<"t">>, ArrayLiteral(<<NumberOf(<<"1">>), NumberOf(<<"2">>)>>)>>, <<<<"o">>, ArrayLiteral(<<NumberOf(<<"1", "0">>), NumberOf(<<"1", "1">>)>>)>>, <<<<"h">>, ArrayLiteral(<<NumberOf(<<"1", "2">>), NumberOf(<<"1", "3">>)>>)>>, <<<<"l">>, ArrayLiteral(<<NumberOf(<<"9">>), NumberOf(<<"9">>)>>)>>, <<<<"c">>, ArrayLiteral(<<NumberOf(<<"1", "1">>), NumberOf(<<"1", "2">>)>>)>>, <<<<"v">>, ArrayLiteral(<<NumberOf(<<"1", "0", "0">>), NumberOf(<<"2", "0", "0">>)>>)>>, <<<<"s">>, StringOf(<<"o", "k">>)>>>>)
NoCandles ==
  ObjectLiteral(<<<<<<"t">>, ArrayLiteral(<<>>)>>, <<<<"o">>, ArrayLiteral(<<>>)>>, <<<<"h">>, ArrayLiteral(<<>>)>>, <<<<"l">>, ArrayLiteral(<<>>)>>, <<<<"c">>, ArrayLiteral(<<>>)>>, <<<<"v">>, ArrayLiteral(<<>>)>>, <<<<"s">>, StringOf(<<"o", "k">>)>>>>)

\* Alpha Vantage series whose keys are in descending, ascending and mixed
\* order, and one with an entry that is null.
Ohlc(open, close) ==
  ObjectLiteral(<< <<Alpha.open, StringOf(open)>>,
                   <<Alpha.close, StringOf(close)>> >>)
Day(d) ==
  CASE d = "1" -> Ohlc(<<"9", ".", "0">>, <<"9", ".", "5">>)
    [] d = "2" -> Ohlc(<<"1", "0", ".", "0">>, <<"1", "0", ".", "5">>)
    [] d = "3" -> Ohlc(<<"1", "1">>, <<"1", "1", ".", "2", "5">>)
Series(days) ==
  ObjectLiteral([i \in DOMAIN days |-> <<Jan(days[i]), Day(days[i])>>])
SeriesDescending == Series(<<"2", "1">>)
SeriesWithNull ==
  ObjectLiteral(<< <<Jan("2"), Day("2")>>, <<Jan("1"), Null>> >>)

\* Rows that carry a time, rows that carry none, and other values.
TimedRow(time, close) ==
  ObjectLiteral(<< <<Key.time, StringOf(time)>>, <<Key.close, close>> >>)
PlainRow(close) == ObjectLiteral(<< <<Key.close, close>> >>)
Zero == NumberOf(<<"0">>)

Extracted ==
  {Candles, NoCandles,
   SeriesDescending, Series(<<"1", "2">>), Series(<<"2", "3", "1">>),
   Series(<<"1">>), SeriesWithNull,
   ArrayLiteral(<<TimedRow(Jan("2"), Two), TimedRow(Jan("1"), One)>>),
   ArrayLiteral(<<TimedRow(Jan("1"), One), TimedRow(Jan("2"), Two)>>),
   ArrayLiteral(<<TimedRow(Jan("2"), Two), Null>>),
   ArrayLiteral(<<PlainRow(Two), PlainRow(One)>>),
   ArrayLiteral(<<PlainRow(One)>>),
   ArrayLiteral(<<Zero, One>>),
   ArrayLiteral(<<One, Zero>>),
   ArrayLiteral(<<Null, PlainRow(One)>>),
   ArrayLiteral(<<>>),
   PlainRow(One),
   ObjectLiteral(<< <<<<"x">>, PlainRow(One)>>, <<<<"y">>, Two>> >>),
   ObjectLiteral(<< <<<<"x">>, ObjectLiteral(<< <<Key.key, One>> >>)>> >>),
   ObjectOf(NoProps),
   One, Zero, StringOf(<<"x">>), Leaf("boolean", <<"t", "r", "u", "e">>),
   Null, Undefined}

InitNormalize ==
  /\ InitCache
  /\ InitJson
  /\ InitIdle
  /\ normWidget \in [type : WidgetTypes, fields : FieldLists]
  /\ normExtracted \in Extracted
  /\ normalized = NoResult
  /\ projected = NoResult
  /\ normStep = "extracted"

\* normalizeData(widget, extractedData, json)
NormalizeData ==
  /\ normStep = "extracted"
  /\ normalized' = normalizeData(normWidget, normExtracted)
  /\ normStep' = "normalized"
  /\ UNCHANGED <<cacheVars, jsonVars, idleVars, normWidget, normExtracted,
                 projected>>

\* processDataWithFields(normalized, fields)
ProcessFields ==
  /\ normStep = "normalized"
  /\ ~normalized.threw
  /\ projected' = processDataWithFields(normalized, normWidget.fields)
  /\ normStep' = "projected"
  /\ UNCHANGED <<cacheVars, jsonVars, idleVars, normWidget, normExtracted,
                 normalized>>

NextNormalize == NormalizeData \/ ProcessFields

SpecNormalize == InitNormalize /\ [][NextNormalize]_vars

\* ---------------------------------------------- specification: retryDelay
MaxAttemptIndex == 12

\* A retry delay with the cap of the query client's default (Providers).
retryDelay_DefaultCap(index) == MathMin({1000 * 2^index, 30000})

\* retryDelay: (attemptIndex) => Math.min(1000 * 2 ** attemptIndex, 10000)
retryDelay(index) == MathMin({1000 * 2^index, 10000})

InitRetryDelay ==
  /\ InitCache
  /\ InitJson
  /\ InitNorm
  /\ InitNet
  /\ InitStore
  /\ attemptIndex \in (0..MaxAttemptIndex) \X (0..MaxAttemptIndex)
  /\ delay = << >>

\* The retryer asks for the delay of two failures of a fetch.
RetryDelay ==
  /\ delay = << >>
  /\ delay' = <<retryDelay(attemptIndex[1]), retryDelay(attemptIndex[2])>>
  /\ UNCHANGED <<cacheVars, jsonVars, normVars, silent, storeVars,
                 attemptIndex>>

NextDelay == RetryDelay

SpecDelay == InitRetryDelay /\ [][NextDelay]_vars

\* ------------------------------------------ specification: the dashboard
\* Ids generateId may produce, the demo widgets' included.
MaxWidgets == 4

\* state.widgets.reduce((max, w) => Math.max(max, w.layoutOrder || 0), -1)
RECURSIVE maxOrder(_)
maxOrder(ws) ==
  IF ws = <<>> THEN -1
  ELSE LET max == maxOrder(SubSeq(ws, 1, Len(ws) - 1))
           order == ws[Len(ws)].layoutOrder
       IN IF order > max THEN order ELSE max

\* widgets.map((w, index) => ({ ...w, layoutOrder: index }))
Reindexed(ws) == [i \in DOMAIN ws |-> [ws[i] EXCEPT !.layoutOrder = i - 1]]

\* state.widgets.filter((w) => w.id !== id)
RECURSIVE Without(_, _)
Without(ws, id) ==
  IF ws = <<>> THEN <<>>
  ELSE IF ws[1].id = id THEN Without(Tail(ws), id)
  ELSE <<ws[1]>> \o Without(Tail(ws), id)

\* widgets.findIndex((w) => w.id === id), from 1; 0 when there is none.
FindIndex(ws, id) ==
  IF \E i \in DOMAIN ws : ws[i].id = id
    THEN CHOOSE i \in DOMAIN ws :
           ws[i].id = id /\ \A j \in 1..(i - 1) : ws[j].id # id
    ELSE 0

StoreStep(ws, action) ==
  /\ widgets' = ws
  /\ lastAction' = action
  /\ UNCHANGED <<cacheVars, jsonVars, normVars, silent, delayVars>>

\* A removeWidget that keeps the layoutOrder of the widgets that stay.
removeWidget_Filtered(id) ==
  /\ StoreStep(Without(widgets, id), "removeWidget")
  /\ UNCHANGED nextWidget

\* addWidget(widget), the widget carrying neither id nor layoutOrder.
addWidget(widget) ==
  /\ nextWidget < MaxWidgets
  /\ StoreStep(Append(widgets, [id |-> nextWidget + 1, name |-> widget.name,
                                layoutOrder |-> maxOrder(widgets) + 1]),
               "addWidget")
  /\ nextWidget' = nextWidget + 1

removeWidget(id) ==
  /\ StoreStep(Reindexed(Without(widgets, id)), "removeWidget")
  /\ UNCHANGED nextWidget

\* updateWidget(id, patch), the patch of WidgetConfigModal (no layoutOrder).
updateWidget(id, patch) ==
  /\ StoreStep([i \in DOMAIN widgets |->
                  IF widgets[i].id = id
                    THEN [widgets[i] EXCEPT !.name = patch.name]
                    ELSE widgets[i]],
               "updateWidget")
  /\ UNCHANGED nextWidget

duplicateWidget(id) ==
  LET found == FindIndex(widgets, id)
  IN IF found = 0
       THEN StoreStep(widgets, "duplicateWidget") /\ UNCHANGED nextWidget
       ELSE /\ nextWidget < MaxWidgets
            /\ StoreStep(Append(widgets,
                                [id |-> nextWidget + 1,
                                 name |-> widgets[found].name \o <<"(Copy)">>,
                                 layoutOrder |-> maxOrder(widgets) + 1]),
                         "duplicateWidget")
            /\ nextWidget' = nextWidget + 1

reorderWidgets(newWidgets) ==
  /\ StoreStep(Reindexed(newWidgets), "reorderWidgets")
  /\ UNCHANGED nextWidget

\* [...widgets].sort((a, b) => (a.layoutOrder || 0) - (b.layoutOrder || 0)),
\* a stable sort.
RECURSIVE sortedWidgets(_)
sortedWidgets(ws) ==
  IF ws = <<>> THEN <<>>
  ELSE LET before == sortedWidgets(SubSeq(ws, 1, Len(ws) - 1))
           last == ws[Len(ws)]
           n == Cardinality({i \in DOMAIN before :
                               before[i].layoutOrder <= last.layoutOrder})
       IN SubSeq(before, 1, n) \o <<last>> \o SubSeq(before, n + 1, Len(before))

\* arrayMove(array, from, to), the indices from 1.
arrayMove(array, from, to) ==
  LET rest == SubSeq(array, 1, from - 1) \o SubSeq(array, from + 1, Len(array))
  IN SubSeq(rest, 1, to - 1) \o <<array[from]>> \o SubSeq(rest, to, Len(rest))

\* handleDragEnd of DashboardGrid, which Home gives the sorted widgets.
handleDragEnd(active, over) ==
  LET shown == sortedWidgets(widgets)
      oldIndex == FindIndex(shown, active)
      newIndex == FindIndex(shown, over)
  IN /\ active # over
     /\ oldIndex # 0
     /\ newIndex # 0
     /\ reorderWidgets(arrayMove(shown, oldIndex, newIndex))

NextStore ==
  \/ addWidget([name |-> <<"new">>])
  \/ \E id \in 1..MaxWidgets : removeWidget(id)
  \/ \E id \in 1..MaxWidgets : updateWidget(id, [name |-> <<"renamed">>])
  \/ \E id \in 1..MaxWidgets : duplicateWidget(id)
  \/ \E active, over \in 1..MaxWidgets : handleDragEnd(active, over)

SpecStore == Init /\ [][NextStore]_vars

\* ------------------------------------------------- useWidgetData's view
\* processedData of useWidgetData: nothing when the cached data is falsy,
\* otherwise the rows derived from the cached response `raw`.
processedData(q) ==
  IF ~q.data.truthy THEN [list |-> "none", raw |-> 0]
  ELSE [list |-> "rows", raw |-> q.data.seq]

\* The query a hook instance observes; that of an instance without a URL is
\* disabled and never fetched.
QueryOf(h) ==
  IF Enabled(hooks[h].apiUrl) THEN queries[hooks[h].apiUrl] ELSE Query0

\* A view that shows no rows while the query is in the error state.
WidgetView_ErrorOnly(h) ==
  LET q == QueryOf(h)
  IN [processed |-> IF q.status = "error" THEN [list |-> "none", raw |-> 0]
                    ELSE processedData(q),
      isError |-> q.status = "error",
      error |-> q.error,
      isFetching |-> q.fetchStatus = "fetching",
      isLoading |-> q.status = "pending" /\ q.fetchStatus = "fetching"
                      /\ q.data = NoData]

\* What useWidgetData returns for a subscribed hook instance.
WidgetView(h) ==
  LET q == QueryOf(h)
  IN [processed |-> processedData(q),
      isError |-> q.status = "error",
      error |-> q.error,
      isFetching |-> q.fetchStatus = "fetching",
      isLoading |-> q.status = "pending" /\ q.fetchStatus = "fetching"
                      /\ q.data = NoData]

\* hasData and isEmpty of useWidgetData.
hasData(view) == view.processed.list = "rows"
isEmpty(view) == ~view.isLoading /\ ~view.isError /\ ~hasData(view)

\* What CardWidget and ChartWidget render for a subscribed hook instance: the
\* loading, error or empty state, or the data.
Rendered(h) ==
  LET view == WidgetView(h)
  IN IF view.isLoading /\ ~hasData(view) THEN "LoadingState"
     ELSE IF view.isError THEN "ErrorState"
     ELSE IF isEmpty(view) THEN "EmptyState"
     ELSE "data"

Subscribers(url) ==
  {h \in Hooks : hooks[h].phase = "mounted" /\ hooks[h].apiUrl = url}

\* --------------------------------------------------------------- claims
\* C1: under every interleaving of subscribes the cache waits for at most one
\* request per URL (a request a manual refresh detached is not waited for,
\* see C8); a subscribe starts at most one request, and none when a
\* request for the URL is outstanding; until the first answer arrives, all
\* the subscribes to a URL without cached data have started exactly one.
C1_SingleFlight ==
  [][\A u \in Urls :
       /\ Cardinality(ActiveRequests(requests', u)) <= 1
       /\ \A h \in Hooks :
            (hooks[h].phase = "rendered" /\ hooks'[h].phase = "mounted"
               /\ hooks[h].apiUrl = u)
            => /\ fetchCount'[u] <= fetchCount[u] + 1
               /\ ({r \in requests : r.url = u} # {} => requests' = requests)
       /\ (Subscribers(u)' # {} /\ done'[u].id = 0
             /\ queries'[u].data = NoData)
          => fetchCount'[u] = 1 /\ Cardinality(requests') = 1]_vars

\* C1 witness: both widgets subscribed to the URL while its first request,
\* the only one, is outstanding.
C1_Witness ==
  /\ Subscribers(CacheUrl) = {"h1", "h2"}
  /\ queries[CacheUrl].data = NoData
  /\ Cardinality(requests) = 1
  /\ fetchCount[CacheUrl] = 1

\* C2: the cached data of a URL only moves forward: the answer to a request
\* started before the one whose answer is cached never replaces it.
C2_DataMovesForward ==
  [][\A u \in Urls :
       /\ queries'[u].data.seq >= queries[u].data.seq
       /\ (done'[u] # done[u] /\ done'[u].id < queries[u].data.seq)
          => queries'[u].data = queries[u].data]_vars

\* C2 witness: the request answered last was started before the request whose
\* answer is cached, and the later answer is still the cached one.
C2_Witness ==
  /\ done[CacheUrl].id > 0
  /\ done[CacheUrl].id < queries[CacheUrl].data.seq
  /\ queryFn(done[CacheUrl].resp).ok

ManualCauses == {"refetch", "refresh"}

C8_RefreshCoalesced ==
  [][\A u \in Urls :
       (fetchCount'[u] > fetchCount[u] /\ trigger'[u].attempts = 1
          /\ trigger'[u].cause \in ManualCauses)
       => /\ queries[u].fetchStatus = "idle"
          /\ ActiveRequests(requests, u) = {}]_vars

\* C9 (as claimed): once a URL whose subscribers all have interval 0 has been
\* fetched, only an explicit refresh (or a retry of the fetch in progress)
\* starts another request for it.
AllManual(u) ==
  /\ Subscribers(u) # {}
  /\ \A h \in Subscribers(u) : hooks[h].refreshIntervalSec = 0

C9_ManualOnly ==
  [][\A u \in Urls :
       (AllManual(u) /\ queries[u].data # NoData /\ queries[u].fresh
          /\ fetchCount'[u] > fetchCount[u])
       => \/ trigger'[u].cause \in {"refetch", "refresh"}
          \/ trigger'[u].attempts > 1]_vars

\* C4: one triggered fetch makes at most 3 attempts; a failure classified
\* RateLimit, AuthError or NotFound ends the fetch at once, and a failure of
\* another kind is followed by a retry only after fewer than 3 attempts.
NotRetried == {RATE_LIMIT, AUTH_ERROR, NOT_FOUND}
Retried == {SERVER_ERROR, NETWORK_ERROR, TIMEOUT, INVALID_DATA, UNKNOWN}

\* The step answered an attempt of the current fetch of u with a failure.
AttemptFailed(u) ==
  done'[u] # done[u] /\ done'[u].active /\ ~queryFn(done'[u].resp).ok

C4_RetryPolicy ==
  [][\A u \in Urls :
       /\ trigger'[u].attempts <= 3
       /\ AttemptFailed(u) =>
            LET e == queryFn(done'[u].resp).error
            IN /\ e.type \in NotRetried
                    => /\ queries'[u].fetchStatus = "idle"
                       /\ queries'[u].status = "error"
                       /\ queries'[u].error = e
               /\ (e.type \in Retried /\ queries'[u].fetchStatus = "fetching")
                    => trigger[u].attempts < 3
               /\ (e.type \in Retried /\ trigger[u].attempts = 3)
                    => queries'[u].fetchStatus = "idle"]_vars

\* C4 witness: a fetch gave up after its third attempt failed with a kind that
\* is retried.
C4_Witness ==
  /\ trigger[CacheUrl].attempts = 3
  /\ queries[CacheUrl].fetchStatus = "idle"
  /\ queries[CacheUrl].status = "error"
  /\ queries[CacheUrl].error.type \in Retried
  /\ done[CacheUrl].active

\* C5 (as claimed): the answer 200 with a rate-limit indicator in its JSON
\* body ends the fetch at once as a failure classified RateLimit, and its body
\* is not stored.
HasRateLimitIndicator(body) ==
  body.parse = "object" /\ (body.note = "freq" \/ body.code429)

C5_RateLimitBody ==
  [][\A u \in Urls :
       (done'[u] # done[u] /\ done'[u].active /\ done'[u].resp.status = 200
          /\ HasRateLimitIndicator(done'[u].resp.body))
       => /\ queries'[u].data = queries[u].data
          /\ queries'[u].status = "error"
          /\ queries'[u].error.type = RATE_LIMIT
          /\ queries'[u].fetchStatus = "idle"]_vars

\* C6: the effective interval of a URL is the least nonzero interval of the
\* subscribers registered for it, and 0 (manual only) when none is nonzero.
MinNonzero(S) ==
  LET pos == {x \in S : x > 0}
  IN IF pos = {} THEN 0 ELSE CHOOSE m \in pos : \A y \in pos : m <= y

IntervalsOf(u) == {t.interval : t \in {s \in registered : s.url = u}}

C6_EffectiveInterval ==
  \A u \in Urls : getShortestInterval(registry, u) = MinNonzero(IntervalsOf(u))

\* C6 witness: one URL with a manual-only subscriber and a 30 s subscriber,
\* the other URL left by its subscribers after a fetch.
C6_Witness ==
  /\ IntervalsOf("u1") = {0, 30}
  /\ IntervalsOf("u2") = {}
  /\ fetchCount["u2"] > 0

\* C7 (as claimed): after every change of the subscribers, once the URL is
\* not being fetched, the poll timer of each mounted widget runs with the
\* effective interval of its URL.
C7_PollPeriodFollows ==
  [][\A h \in Hooks :
       (/\ registered' # registered
        /\ hooks'[h].phase = "mounted"
        /\ Enabled(hooks'[h].apiUrl)
        /\ queries'[hooks'[h].apiUrl].fetchStatus = "idle")
       => hooks'[h].refetchInterval
            = getShortestInterval(registry', hooks'[h].apiUrl)]_vars

\* C10 (as claimed): what getByPath finds at the path in the value
\* setByPath returned is the value that was set.
C10_GetAfterSet == jsonStep = "got" => jsonFound = jsonValue

\* C11 (as claimed): getByPath returns the root for the empty path, the
\* value stored at the path when every segment names a key of an object or an
\* index within an array (null included), and undefined as soon as a segment
\* does not: missing key, null or primitive on the way, index out of range,
\* non-numeric segment on an array.
RECURSIVE ValueAt(_, _, _)
ValueAt(node, keys, i) ==
  IF i > Len(keys) THEN node
  ELSE IF node.t = "object" /\ keys[i] \in DOMAIN node.props
    THEN ValueAt(node.props[keys[i]], keys, i + 1)
  ELSE IF node.t = "array" /\ IsNumeric(keys[i])
            /\ parseInt(keys[i]) < ArrayLength(node)
    THEN ValueAt(node.props[String(parseInt(keys[i]))], keys, i + 1)
  ELSE Undefined

C11_NotFound ==
  jsonStep = "found"
    => jsonFound = IF jsonPath = <<>> THEN jsonObj
                   ELSE ValueAt(jsonObj, split(jsonPath), 1)

\* C12: setByPath leaves every object and array of root as it was, and the
\* nodes of its result from the result's root down to the parent of the
\* written segment are new ones.
RECURSIVE NodesOf(_)
NodesOf(node) ==
  IF node.t \in {"object", "array"}
    THEN {node} \cup UNION {NodesOf(node.props[k]) : k \in DOMAIN node.props}
    ELSE {}

\* The nodes of tree that the keys before the last one lead through.
RECURSIVE NodesAlong(_, _, _)
NodesAlong(tree, keys, i) ==
  IF i >= Len(keys) THEN {tree}
  ELSE {tree} \cup NodesAlong(GetProp(tree, keys[i]), keys, i + 1)

C12_RootUntouched ==
  jsonStep = "set"
    => /\ \A n \in NodesOf(jsonResult) :
            n.id # Fresh => n \in NodesOf(jsonObj)
       /\ \A n \in NodesAlong(jsonResult, split(jsonPath), 1) :
            n.t \in {"object", "array"} /\ n.id = Fresh

\* C12 witness: a two-segment path was set through an array of root that
\* has an element.
C12_Witness ==
  /\ jsonStep = "set"
  /\ Len(split(jsonPath)) = 2
  /\ GetProp(jsonObj, split(jsonPath)[1]).t = "array"
  /\ GetProp(jsonObj, split(jsonPath)[1]).props # NoProps
  /\ jsonResult # jsonObj

\* C13: a candle-shaped value (arrays t, o, h, l, c, v and a string s)
\* normalizes, for any widget type, to one row {time, open, high, low, close,
\* volume} per index of the arrays, in index order, and single is the last
\* row.
IsCandleShaped(value) ==
  /\ value.t = "object"
  /\ \A k \in {<<"t">>, <<"o">>, <<"h">>, <<"l">>, <<"c">>, <<"v">>} :
       k \in DOMAIN value.props /\ value.props[k].t = "array"
  /\ <<"s">> \in DOMAIN value.props /\ value.props[<<"s">>].t = "string"

RowAt(value, i) ==
  [k \in {Key.time, Key.open, Key.high, Key.low, Key.close, Key.volume} |->
     GetProp(value.props[<<k[1]>>], String(i - 1))]

C13_CandleRows ==
  (normStep = "normalized" /\ IsCandleShaped(normExtracted)) =>
    /\ ~normalized.threw
    /\ Len(normalized.list) = ArrayLength(normExtracted.props[<<"t">>])
    /\ \A i \in DOMAIN normalized.list :
         normalized.list[i].props = RowAt(normExtracted, i)
    /\ normalized.single =
         IF normalized.list = <<>> THEN Null
         ELSE normalized.list[Len(normalized.list)]

\* C14: for a chart widget, an object whose keys are dates and whose values
\* are objects with the keys "1. open", "4. close" and the like normalizes to
\* one row per key, with the names time, open, high, low, close and volume
\* and numbers as values, in ascending order of the dates whatever the order
\* of the keys, and single is the last row.
IsKeyedSeries(value) ==
  /\ value.t = "object"
  /\ value.props # NoProps
  /\ \A k \in DOMAIN value.props :
       /\ IsDate(k)
       /\ value.props[k].t = "object"
       /\ {Alpha.open, Alpha.close} \subseteq DOMAIN value.props[k].props

C14_SeriesAscending ==
  (normStep = "normalized" /\ normWidget.type = "chart"
     /\ IsKeyedSeries(normExtracted)) =>
    /\ ~normalized.threw
    /\ Len(normalized.list) = Cardinality(DOMAIN normExtracted.props)
    /\ {normalized.list[i].props[Key.time].v : i \in DOMAIN normalized.list}
         = DOMAIN normExtracted.props
    /\ \A i \in DOMAIN normalized.list :
         LET row == normalized.list[i]
             day == normExtracted.props[row.props[Key.time].v]
         IN /\ DOMAIN row.props
                 = {Key.time, Key.open, Key.high, Key.low, Key.close,
                    Key.volume}
            /\ \A k \in DOMAIN row.props \ {Key.time} :
                 row.props[k].t = "number"
            /\ row.props[Key.open] = DecimalNumber(day.props[Alpha.open].v)
            /\ row.props[Key.close] = DecimalNumber(day.props[Alpha.close].v)
    /\ \A i, j \in DOMAIN normalized.list :
         i < j => DateValue(normalized.list[i].props[Key.time])
                    < DateValue(normalized.list[j].props[Key.time])
    /\ normalized.single = normalized.list[Len(normalized.list)]

\* The series given with its later day first comes out with its earlier day
\* first, and single closes at 10.5.
C14_Witness ==
  /\ normStep = "normalized"
  /\ normWidget.type = "chart"
  /\ normExtracted = SeriesDescending
  /\ ObjectKeys(normExtracted) = <<Jan("2"), Jan("1")>>
  /\ Len(normalized.list) = 2
  /\ normalized.list[1].props[Key.time] = StringOf(Jan("1"))
  /\ normalized.list[2].props[Key.time] = StringOf(Jan("2"))
  /\ normalized.single.props[Key.close] = NumberOf(<<"1", "0", ".", "5">>)

\* C15: for every widget type and extracted value, single of the normalized
\* result is null or an element of list, the first for a card or table and
\* the last for a chart, and single is null whenever list is empty. With
\* fields projected onto it, single is null or holds what the same element of
\* the projected list holds under each of single's keys.
ElementFor(list, type) == IF type = "chart" THEN list[Len(list)] ELSE list[1]

C15_SingleInList ==
  /\ (normStep \in {"normalized", "projected"} /\ ~normalized.threw) =>
       /\ normalized.single = Null
            \/ /\ normalized.list # <<>>
               /\ normalized.single
                    = ElementFor(normalized.list, normWidget.type)
       /\ normalized.list = <<>> => normalized.single = Null
  /\ normStep = "projected" =>
       /\ Len(projected.list) = Len(normalized.list)
       /\ projected.single = Null <=> ~Truthy(normalized.single)
       /\ projected.single # Null =>
            LET element == ElementFor(projected.list, normWidget.type)
            IN \A k \in DOMAIN projected.single.props :
                 /\ k \in DOMAIN element.props
                 /\ element.props[k] = projected.single.props[k]

\* A table of two rows with fields, whose single is the first row, and (as
\* another state) a chart of two candles, whose single is the last.
C15_Witness ==
  /\ normStep = "projected"
  /\ normWidget.fields # <<>>
  /\ Len(normalized.list) = 2
  /\ normalized.list[1] # normalized.list[2]
  /\ normalized.single # Null
  /\ projected.single # Null
  /\ \/ normWidget.type = "table" /\ normalized.single = normalized.list[1]
     \/ normWidget.type = "chart" /\ normalized.single = normalized.list[2]

\* C16: a widget whose URL was fetched with success keeps showing its last
\* good data after a later fetch fails; the error state with its retry button
\* is rendered only by a widget that has no data of an earlier success.
C16_LastGoodShown ==
  \A h \in Hooks :
    (hooks[h].phase = "mounted" /\ hasData(WidgetView(h))) =>
      Rendered(h) = "data"

\* C17: every fetch attempt comes to an end: a request that gets no answer is
\* ended by a timeout and fails like any other, so no URL stays fetching for
\* ever.
C17_FetchEnds ==
  \A u \in Urls :
    (queries[u].fetchStatus = "fetching") ~> (queries[u].fetchStatus = "idle")

\* C18: every error a widget is given for its URL, whether the failing fetch
\* was started by the widget's query, by a refresh or by a prefetch of the
\* same key, has one of the eight kinds of ErrorType.
C18_ErrorKinds ==
  \A h \in Hooks :
    (hooks[h].phase = "mounted" /\ WidgetView(h).isError) =>
      WidgetView(h).error.type \in ErrorType

\* C19: the classification of an answer follows the priority: a JSON body
\* with a rate-limit indicator is RateLimit even when it also has an
\* invalid-request or bad-symbol indicator; otherwise a JSON body with such an
\* indicator is InvalidData; both whatever the HTTP status; and a body of a
\* status outside 2xx that is not JSON is classified by the status alone.
HasInvalidIndicator(body) == body.parse = "object" /\ (body.info \/ body.errmsg)

KindOfStatus(status) ==
  CASE status = 400 -> INVALID_DATA
    [] status \in {401, 403} -> AUTH_ERROR
    [] status = 404 -> NOT_FOUND
    [] status = 429 -> RATE_LIMIT
    [] status \in {500, 502, 503, 504} -> SERVER_ERROR
    [] OTHER -> UNKNOWN

C19_Priority ==
  [][\A u \in Urls :
       LET resp == done'[u].resp
           kind == queries'[u].fetchFailureReason.type
       IN (done'[u] # done[u] /\ done'[u].active /\ resp.kind = "http") =>
            /\ HasRateLimitIndicator(resp.body) => kind = RATE_LIMIT
            /\ (HasInvalidIndicator(resp.body)
                  /\ ~HasRateLimitIndicator(resp.body)) => kind = INVALID_DATA
            /\ (~ResponseOk(resp) /\ resp.body.parse = "invalid")
                 => kind = KindOfStatus(resp.status)]_vars

\* C20: an answer with a 2xx status whose body is empty or not JSON makes the
\* attempt fail with an error classified InvalidData; the data of the query
\* stays what it was, and when the fetch ends with it the query is in the
\* error state with that error.
C20_InvalidBody ==
  [][\A u \in Urls :
       (/\ done'[u] # done[u] /\ done'[u].active
        /\ done'[u].resp.kind = "http" /\ ResponseOk(done'[u].resp)
        /\ done'[u].resp.body.parse = "invalid")
       => /\ queries'[u].data = queries[u].data
          /\ queries'[u].fetchFailureReason.type = INVALID_DATA
          /\ queries'[u].fetchFailureReason.type \in ErrorType
          /\ queries'[u].fetchStatus = "idle" =>
               /\ queries'[u].status = "error"
               /\ queries'[u].error.type = INVALID_DATA]_vars

\* The third answer to a first fetch was 200 with a body that is not JSON:
\* the fetch has ended as InvalidData and the query has no data.
C20_Witness ==
  /\ done[CacheUrl].active
  /\ done[CacheUrl].resp = Http(200, PlainBody("invalid"))
  /\ queries[CacheUrl].fetchStatus = "idle"
  /\ queries[CacheUrl].status = "error"
  /\ queries[CacheUrl].error.type = INVALID_DATA
  /\ queries[CacheUrl].data = NoData

\* C21: an answer with a status outside 2xx whose body holds no embedded
\* error is classified by its status alone: 400 InvalidData, 401 and 403
\* AuthError, 404 NotFound, 429 RateLimit, 500, 502, 503 and 504 ServerError,
\* anything else Unknown; for 429 retryAfter is the number found in the body,
\* or 60 when none is found, and always positive.
NoEmbeddedError(body) ==
  ~HasRateLimitIndicator(body) /\ ~HasInvalidIndicator(body)
    /\ body.note # "nonstring"

C21_StatusKinds ==
  [][\A u \in Urls :
       LET resp == done'[u].resp
           reason == queries'[u].fetchFailureReason
       IN (/\ done'[u] # done[u] /\ done'[u].active /\ resp.kind = "http"
           /\ ~ResponseOk(resp) /\ NoEmbeddedError(resp.body)) =>
            /\ reason.type = KindOfStatus(resp.status)
            /\ resp.status = 429 =>
                 /\ reason.retryAfter > 0
                 /\ resp.body.hint > 0 => reason.retryAfter = resp.body.hint
                 /\ resp.body.hint < 0 => reason.retryAfter = 60]_vars

\* The answer was 429 with "retry ... 30" in its body: the widget's error is
\* RateLimit with retryAfter 30.
C21_Witness ==
  /\ done[CacheUrl].active
  /\ done[CacheUrl].resp.status = 429
  /\ done[CacheUrl].resp.body.hint = 30
  /\ queries[CacheUrl].status = "error"
  /\ queries[CacheUrl].error.type = RATE_LIMIT
  /\ queries[CacheUrl].error.retryAfter = 30

\* C22: an exception of fetch is classified by its message, the first match
\* winning: words of a timeout give Timeout, words of connectivity give
\* NetworkError, "cors" gives NetworkError with the CORS message, anything
\* else, a missing message included, gives Unknown; the attempt always fails
\* with one of these.
C22_NetworkKinds ==
  [][\A u \in Urls :
       LET resp == done'[u].resp
           reason == queries'[u].fetchFailureReason
       IN (done'[u] # done[u] /\ done'[u].active /\ resp.kind = "throw") =>
            /\ reason.type \in ErrorType
            /\ "timeout" \in resp.msg => reason.type = TIMEOUT
            /\ ("network" \in resp.msg /\ "timeout" \notin resp.msg)
                 => reason.type = NETWORK_ERROR /\ reason.message # "CORS error"
            /\ ("cors" \in resp.msg /\ resp.msg \cap {"timeout", "network"} = {})
                 => reason.type = NETWORK_ERROR /\ reason.message = "CORS error"
            /\ resp.msg = {} => reason.type = UNKNOWN]_vars

\* fetch rejected with a message that speaks of a timeout and of the network:
\* the attempt failed as Timeout.
C22_Witness ==
  /\ done[CacheUrl].active
  /\ done[CacheUrl].resp = Thrown({"timeout", "network"})
  /\ queries[CacheUrl].fetchFailureReason.type = TIMEOUT

\* C23: an extracted array gives, for a card or table, list with the same
\* elements in the same order and single its first element, a falsy one
\* included; for a chart, list in ascending order of the rows' time when the
\* rows carry one, and single its last element; single is null exactly when
\* the array is empty.
C23_Sequences ==
  (normStep = "normalized" /\ normExtracted.t = "array"
     /\ ~normalized.threw) =>
    /\ Len(normalized.list) = ArrayLength(normExtracted)
    /\ normalized.single = Null <=> normalized.list = <<>>
    /\ normWidget.type # "chart" =>
         /\ normalized.list = Items(normExtracted)
         /\ normalized.list # <<>> => normalized.single = normalized.list[1]
    /\ normWidget.type = "chart" =>
         /\ \A i, j \in DOMAIN normalized.list :
              (i < j /\ \A k \in {i, j} :
                          /\ normalized.list[k].t = "object"
                          /\ Key.time \in DOMAIN normalized.list[k].props)
                => DateValue(normalized.list[i].props[Key.time])
                     <= DateValue(normalized.list[j].props[Key.time])
         /\ normalized.list # <<>> =>
              normalized.single = normalized.list[Len(normalized.list)]

\* C24: an extracted object of no special shape gives, for a chart, one row
\* per top-level entry, in the order of the entries, each row being
\* {key, ...value} with key the entry's key; for a card or table it gives
\* list = [object] and single = object.
IsPlainObject(value) ==
  /\ value.t = "object"
  /\ ~IsCandleShaped(value)
  /\ ~looksLikeAlphaTimeSeriesObject(value)

KeyAndSpread(key, value) ==
  LET spread == SpreadObject(value).props
  IN [k \in {Key.key} \cup DOMAIN spread |->
        IF k = Key.key THEN StringOf(key) ELSE spread[k]]

C24_PlainObjects ==
  (normStep = "normalized" /\ IsPlainObject(normExtracted)) =>
    /\ ~normalized.threw
    /\ normWidget.type = "chart" =>
         /\ Len(normalized.list) = Len(ObjectKeys(normExtracted))
         /\ \A i \in DOMAIN normalized.list :
              normalized.list[i].props =
                KeyAndSpread(ObjectKeys(normExtracted)[i],
                             normExtracted.props[ObjectKeys(normExtracted)[i]])
    /\ normWidget.type # "chart" =>
         /\ normalized.list = <<normExtracted>>
         /\ normalized.single = normExtracted

\* C25: an extracted string, number or boolean gives, for every widget type,
\* chart included, single = {value: primitive} and list = [single]; null and
\* undefined give list = [] and single = null.
C25_Primitives ==
  normStep = "normalized" =>
    /\ normExtracted.t \in {"string", "number", "boolean"} =>
         /\ ~normalized.threw
         /\ normalized.single.t = "object"
         /\ normalized.single.props = [k \in {Key.value} |-> normExtracted]
         /\ normalized.list = <<normalized.single>>
    /\ normExtracted.t \in {"null", "undefined"} =>
         /\ ~normalized.threw
         /\ normalized.list = <<>>
         /\ normalized.single = Null

\* C26: for a subscribed widget, isEmpty is true only when a fetch of its URL
\* has succeeded and the processed result has no rows and no single; it is
\* false for a widget that has loaded nothing (no URL, query disabled, first
\* fetch not finished); and isEmpty implies neither isError nor hasData.
C26_EmptyAfterSuccess ==
  \A h \in Hooks :
    (hooks[h].phase = "mounted" /\ isEmpty(WidgetView(h))) =>
      /\ QueryOf(h).status = "success"
      /\ Enabled(hooks[h].apiUrl)
      /\ ~WidgetView(h).isError
      /\ ~hasData(WidgetView(h))

\* C27: the delay before retry number k (k = 0 for the first retry) is
\* min(1000 * 2^k, 10000) milliseconds: 1 s, then 2 s, doubling from one
\* retry to the next until the cap, never above 10 s, and never smaller for
\* a later retry than for an earlier one.
C27_Backoff ==
  delay # << >> =>
    /\ \A i \in 1..2 :
         /\ delay[i] <= 10000
         /\ attemptIndex[i] = 0 => delay[i] = 1000
         /\ attemptIndex[i] = 1 => delay[i] = 2000
         /\ delay[i] = IF 1000 * 2^attemptIndex[i] < 10000
                         THEN 1000 * 2^attemptIndex[i] ELSE 10000
    /\ attemptIndex[2] = attemptIndex[1] + 1 =>
         delay[2] = IF 2 * delay[1] < 10000 THEN 2 * delay[1] ELSE 10000
    /\ attemptIndex[1] <= attemptIndex[2] => delay[1] <= delay[2]

\* The delays of the third retry and of a retry past the cap were computed.
C27_Witness ==
  /\ delay # << >>
  /\ attemptIndex = <<2, 5>>
  /\ delay = <<4000, 10000>>

\* The registry holds the entry (url, widgetId, interval).
Holds(reg, url, widgetId, interval) ==
  /\ url \in DOMAIN reg
  /\ widgetId \in DOMAIN reg[url]
  /\ reg[url][widgetId] = interval

\* Some mounted, enabled hook instance has this url, widgetId and interval.
InUse(url, widgetId, interval) ==
  \E h \in Hooks :
    /\ hooks[h].phase = "mounted"
    /\ Enabled(hooks[h].apiUrl)
    /\ hooks[h].apiUrl = url
    /\ WidgetOf(h) = widgetId
    /\ hooks[h].refreshIntervalSec = interval

\* C28: after any sequence of mounts, unmounts and reconfigurations, two
\* mounted instances of one widget included, the registry holds an entry
\* (url, widgetId, interval) exactly when some mounted, enabled hook
\* instance has that url, widgetId and interval, and it keeps no URL with an
\* empty subscriber map.
C28_RegistryMatchesMounted ==
  /\ \A u \in Urls, w \in {WidgetOf(h) : h \in Hooks}, i \in IntervalChoices :
       Holds(registry, u, w, i) <=> InUse(u, w, i)
  /\ \A u \in DOMAIN registry : DOMAIN registry[u] # {}

\* C29: normalizeData followed by the field projection returns a result
\* without throwing for every widget type and every extracted value, a chart
\* given an array whose first element is a primitive or null included.
C29_NeverThrows ==
  normStep \in {"normalized", "projected"} =>
    /\ ~normalized.threw
    /\ normStep = "projected" => ~projected.threw

\* C30: after any sequence of addWidget, duplicateWidget, removeWidget,
\* updateWidget and reorderWidgets from the initial store, the layoutOrder
\* values strictly increase along the widgets array (so they are pairwise
\* distinct and the display order is the array order), and right after
\* removeWidget or reorderWidgets they are exactly 0..n-1.
C30_LayoutOrder ==
  /\ \A i, j \in DOMAIN widgets :
       i < j => widgets[i].layoutOrder < widgets[j].layoutOrder
  /\ sortedWidgets(widgets) = widgets
  /\ lastAction \in {"removeWidget", "reorderWidgets"} =>
       \A i \in DOMAIN widgets : widgets[i].layoutOrder = i - 1

\* A copy was dragged to the front and one of the demo widgets then removed.
C30_Witness ==
  /\ lastAction = "removeWidget"
  /\ Len(widgets) = 3
  /\ widgets[1].id = 4
  /\ widgets[1].name = <<"demo", "(Copy)">>

====
